---- MODULE Spec2Model ----
(***************************************************************************)
(* The portfolio aggregation of the dashboard page (DashboardPage.tsx):   *)
(* the two series builders, the category distribution and its visible     *)
(* part, the monthly category performance and the choice of the chart's   *)
(* records, fallback value and builder by the view selected.              *)
(*                                                                         *)
(* Time.  A timestamp (Date.getTime()) is an integer counting days, every *)
(* month having DaysPerMonth days: timestamp = (year*12 + month) *        *)
(* DaysPerMonth + (day - 1).  An unparseable controlDate has the          *)
(* timestamp InvalidDate (NaN).                                           *)
(* Money is an integer amount.  A nullable number is <<>> (null) or <<v>>.*)
(* A JS Map is the sequence of its entries in insertion order.            *)
(***************************************************************************)
EXTENDS Integers, Sequences, FiniteSets, TLC

VARIABLES
    now,            \* the clock: what new Date() returns
    records,        \* the builders' argument records
    fallbackValue,  \* the builders' argument fallbackValue
    months,         \* buildMonthlySeries' argument months
    assetControls,  \* DashboardPage state: the snapshots loaded
    currentTotal,   \* DashboardPage state: the live total, or null
    assets,         \* DashboardPage state: the assets loaded
    transactions,   \* DashboardPage state: the transactions loaded
    hiddenCategories, \* the categories the settings hide
    viewMode,       \* DashboardPage state: the chart view selected
    pc,             \* "ready" before the computation, "done" after it
    result,         \* what the computation returned
    loading,        \* DashboardPage state: a load is under way
    error,          \* DashboardPage state: the error message, or null
    effectPending,  \* the mount effect has not run loadAssetControls yet
    loads,          \* the calls of loadAssetControls that have not returned
    started,        \* how many calls of loadAssetControls were made
    mounts,         \* how many times the page was mounted
    origin,         \* which call stored each piece of the page's state
    lastPass,       \* the call that returned last: its answers and months
    firstPass,      \* the call that returned first, with what it derived
    open,           \* AtivosPage: Boolean(transactionAsset)
    transactionType, \* AssetTransactionDialog state
    amountText,     \* AssetTransactionDialog state amount: the field's text
    submitting,     \* AssetTransactionDialog state
    dialogError,    \* AssetTransactionDialog state error
    onSubmitCalls,  \* the calls of onSubmit made so far
    pendingSubmits  \* the calls of onSubmit that have not settled

loadVars == <<loading, error, effectPending, loads, started, mounts, origin,
              lastPass, firstPass>>

dialogVars == <<open, transactionType, amountText, submitting, dialogError,
                onSubmitCalls, pendingSubmits>>

vars == <<now, records, fallbackValue, months, assetControls, currentTotal,
          assets, transactions, hiddenCategories, viewMode, pc, result,
          loadVars, dialogVars>>

---------------------------------------------------------------------------
\* Bounds of the model.

DaysPerMonth == 2
MaxRecords == 3
MaxBack == 3
MaxWindow == 3
MaxTransactions == 2
MaxAssets == 2

---------------------------------------------------------------------------
\* Nullable numbers, sequences.

Null == <<>>
Some(v) == <<v>>
IsNull(x) == x = <<>>
Val(x) == x[1]

\* a ?? b
Coalesce(a, b) == IF IsNull(a) THEN b ELSE a

SeqsUpTo(S, n) == UNION {[1..k -> S] : k \in 0..n}

Last(s) == s[Len(s)]

\* The page once its load is over: nothing under way and no error.
LoadSettled ==
    /\ loading = FALSE
    /\ error = Null
    /\ effectPending = FALSE
    /\ loads = <<>>
    /\ started = 0
    /\ mounts = 1
    /\ origin = [controls |-> 0, transactions |-> 0, total |-> 0]
    /\ lastPass = Null
    /\ firstPass = Null

\* The transaction dialog closed, its state as useState initialises it.
DialogClosed ==
    /\ open = FALSE
    /\ transactionType = "aporte"
    /\ amountText = ""
    /\ submitting = FALSE
    /\ dialogError = Null
    /\ onSubmitCalls = <<>>
    /\ pendingSubmits = 0

---------------------------------------------------------------------------
\* The categories.

NoCategory == ""

CATEGORIES == {"RENDA_FIXA_POS", "RENDA_FIXA_PRE", "RENDA_FIXA_IPCA", "ACOES",
               "CRIPTOMOEDAS", "IMOVEIS", "CARROS"}

PERFORMANCE_CATEGORIES == <<"RENDA_FIXA_POS", "RENDA_FIXA_IPCA", "ACOES">>

---------------------------------------------------------------------------
\* Dates.

InvalidDate == -1

isNaN(ts) == ts = InvalidDate

getFullYear(ts) == (ts \div DaysPerMonth) \div 12

getMonth(ts) == (ts \div DaysPerMonth) % 12

\* new Date(year, month, 1); a month outside 0..11 rolls the year over.
NewDate(year, month) == (year * 12 + month) * DaysPerMonth

\* now.setDate(1); now.setHours(0, 0, 0, 0)
StartOfMonth(ts) == NewDate(getFullYear(ts), getMonth(ts))

\* `${year}-${month}`
MonthKey(ts) == <<getFullYear(ts), getMonth(ts)>>

formatMonthYear(ts) == [month |-> getMonth(ts), year |-> getFullYear(ts)]

\* Array.prototype.sort((a, b) => a.date - b.date): stable insertion by date.
RECURSIVE InsertByDate(_, _)
InsertByDate(sorted, e) ==
    IF sorted = <<>> THEN <<e>>
    ELSE IF Last(sorted).date <= e.date THEN Append(sorted, e)
    ELSE Append(InsertByDate(SubSeq(sorted, 1, Len(sorted) - 1), e), Last(sorted))

RECURSIVE SortByDate(_)
SortByDate(s) ==
    IF s = <<>> THEN <<>>
    ELSE InsertByDate(SortByDate(SubSeq(s, 1, Len(s) - 1)), Last(s))

\* Map.get(key): the index of the entry of that key, 0 when there is none.
MapIndex(map, key) ==
    LET hits == {i \in 1..Len(map) : map[i].key = key}
    IN  IF hits = {} THEN 0 ELSE CHOOSE i \in hits : TRUE

\* Map.set(key, entry): replaces the entry in place, or adds it at the end.
MapSet(map, entry) ==
    LET i == MapIndex(map, entry.key)
    IN  IF i = 0 THEN Append(map, entry) ELSE [map EXCEPT ![i] = entry]

---------------------------------------------------------------------------
\* buildQuarterlySeries

Point(ts, value) ==
    [date |-> ts, value |-> value, formattedDate |-> formatMonthYear(ts)]

\* QuarterStep keyed by the record's month instead of its quarter.
QuarterStepByMonth(quarterMap, control) ==
    IF isNaN(control.controlDate) THEN quarterMap
    ELSE LET quarterStart == NewDate(getFullYear(control.controlDate),
                                     getMonth(control.controlDate))
             key == MonthKey(quarterStart)
             i == MapIndex(quarterMap, key)
         IN  IF i = 0 \/ control.currentTotalValue > quarterMap[i].value
             THEN MapSet(quarterMap, [key |-> key, date |-> quarterStart,
                                      value |-> control.currentTotalValue])
             ELSE quarterMap

\* QuarterStep with every record replacing its quarter's entry (the latest
\* record wins, not the highest).
QuarterStepLatest(quarterMap, control) ==
    IF isNaN(control.controlDate) THEN quarterMap
    ELSE LET quarterMonth == (getMonth(control.controlDate) \div 3) * 3
             quarterStart == NewDate(getFullYear(control.controlDate), quarterMonth)
         IN  MapSet(quarterMap, [key |-> MonthKey(quarterStart), date |-> quarterStart,
                                 value |-> control.currentTotalValue])

\* The body of records.forEach: one record folded into quarterMap.
QuarterStep(quarterMap, control) ==
    IF isNaN(control.controlDate) THEN quarterMap
    ELSE LET quarterMonth == (getMonth(control.controlDate) \div 3) * 3
             quarterStart == NewDate(getFullYear(control.controlDate), quarterMonth)
             key == MonthKey(quarterStart)
             i == MapIndex(quarterMap, key)
         IN  IF i = 0 \/ control.currentTotalValue > quarterMap[i].value
             THEN MapSet(quarterMap, [key |-> key, date |-> quarterStart,
                                      value |-> control.currentTotalValue])
             ELSE quarterMap

RECURSIVE QuarterMap(_)
QuarterMap(recs) ==
    IF recs = <<>> THEN <<>>
    ELSE QuarterStep(QuarterMap(SubSeq(recs, 1, Len(recs) - 1)), Last(recs))

\* Array.from(quarterMap.values()).sort(...).map(...)
QuarterlyData(recs) ==
    LET sorted == SortByDate(QuarterMap(recs))
    IN  [i \in 1..Len(sorted) |-> Point(sorted[i].date, sorted[i].value)]

\* QuarterlyCurrentValue without the last record's value behind the fallback.
QuarterlyCurrentValueLiveOnly(recs, fallback) == fallback

\* fallbackValue ?? records[records.length - 1]?.currentTotalValue ?? null
QuarterlyCurrentValue(recs, fallback) ==
    Coalesce(fallback, Some(Last(recs).currentTotalValue))

\* QuarterlyOverride that appends even when the last point is the current
\* month's.
QuarterlyOverrideAlwaysAppend(quarterlyData, currentValue) ==
    Append(quarterlyData, Point(StartOfMonth(now), Val(currentValue)))

\* The current-month override of the last point, or the appended point.
QuarterlyOverride(quarterlyData, currentValue) ==
    LET nowStart == StartOfMonth(now)
        isSameMonth ==
            /\ quarterlyData # <<>>
            /\ getFullYear(Last(quarterlyData).date) = getFullYear(nowStart)
            /\ getMonth(Last(quarterlyData).date) = getMonth(nowStart)
    IN  IF isSameMonth
        THEN [quarterlyData EXCEPT ![Len(quarterlyData)] =
                 Point(nowStart, Val(currentValue))]
        ELSE Append(quarterlyData, Point(nowStart, Val(currentValue)))

\* EmptyRecordsSeries returning no point at all.
EmptyRecordsSeriesNone(fallback) == <<>>

\* if (!records.length): the series of no record.
EmptyRecordsSeries(fallback) ==
    IF IsNull(fallback) THEN <<>>
    ELSE <<Point(StartOfMonth(now), Val(fallback))>>

buildQuarterlySeries(recs, fallback) ==
    IF recs = <<>> THEN EmptyRecordsSeries(fallback)
    ELSE LET quarterlyData == QuarterlyData(recs)
             currentValue == QuarterlyCurrentValue(recs, fallback)
         IN  IF IsNull(currentValue) THEN quarterlyData
             ELSE QuarterlyOverride(quarterlyData, currentValue)

---------------------------------------------------------------------------
\* buildMonthlySeries

\* The body of records.forEach: one record folded into monthMap.
MonthStep(monthMap, control) ==
    IF isNaN(control.controlDate) THEN monthMap
    ELSE LET monthStart == NewDate(getFullYear(control.controlDate),
                                   getMonth(control.controlDate))
             key == MonthKey(monthStart)
             i == MapIndex(monthMap, key)
         IN  IF i = 0 \/ control.currentTotalValue > monthMap[i].value
             THEN MapSet(monthMap, [key |-> key, date |-> monthStart,
                                    value |-> control.currentTotalValue])
             ELSE monthMap

RECURSIVE MonthMapOfRecords(_)
MonthMapOfRecords(recs) ==
    IF recs = <<>> THEN <<>>
    ELSE MonthStep(MonthMapOfRecords(SubSeq(recs, 1, Len(recs) - 1)), Last(recs))

\* MonthMapWithFallback that sets the current month without comparing.
MonthMapWithFallbackOverwrite(monthMap, fallback) ==
    IF IsNull(fallback) THEN monthMap
    ELSE MapSet(monthMap, [key |-> MonthKey(StartOfMonth(now)),
                           date |-> StartOfMonth(now), value |-> Val(fallback)])

\* if (fallbackValue != null) { ... monthMap.set(currentKey, ...) }
MonthMapWithFallback(monthMap, fallback) ==
    IF IsNull(fallback) THEN monthMap
    ELSE LET nowStart == StartOfMonth(now)
             currentKey == MonthKey(nowStart)
             i == MapIndex(monthMap, currentKey)
         IN  IF i = 0 \/ Val(fallback) > monthMap[i].value
             THEN MapSet(monthMap, [key |-> currentKey, date |-> nowStart,
                                    value |-> Val(fallback)])
             ELSE monthMap

\* The per-month map after the records and the fallback value.
MonthMap(recs, fallback) ==
    MonthMapWithFallback(MonthMapOfRecords(recs), fallback)

\* WindowStart one month early (months back instead of months - 1).
WindowStartOffByOne(window) ==
    NewDate(getFullYear(StartOfMonth(now)), getMonth(StartOfMonth(now)) - window)

\* start: the first month of the window.
WindowStart(window) ==
    LET start == StartOfMonth(now)
    IN  NewDate(getFullYear(start), getMonth(start) - (window - 1))

\* SkipBefore that advances the pointer without keeping the value passed.
RECURSIVE SkipBeforeNoCarry(_, _, _)
SkipBeforeNoCarry(sortedEntries, st, start) ==
    IF st.pointer <= Len(sortedEntries) /\ sortedEntries[st.pointer].date < start
    THEN SkipBeforeNoCarry(sortedEntries,
                           [pointer |-> st.pointer + 1, latestValue |-> Null], start)
    ELSE st

\* while (pointer < length && sortedEntries[pointer].date < start) { ... }
\* The state is the pointer (counted from 1) and latestValue.
RECURSIVE SkipBefore(_, _, _)
SkipBefore(sortedEntries, st, start) ==
    IF st.pointer <= Len(sortedEntries) /\ sortedEntries[st.pointer].date < start
    THEN SkipBefore(sortedEntries,
                    [pointer |-> st.pointer + 1,
                     latestValue |-> Some(sortedEntries[st.pointer].value)],
                    start)
    ELSE st

\* while (pointer < length && sortedEntries[pointer].date <= monthDate) { ... }
RECURSIVE TakeUpTo(_, _, _)
TakeUpTo(sortedEntries, st, monthDate) ==
    IF st.pointer <= Len(sortedEntries) /\ sortedEntries[st.pointer].date <= monthDate
    THEN TakeUpTo(sortedEntries,
                  [pointer |-> st.pointer + 1,
                   latestValue |-> Some(sortedEntries[st.pointer].value)],
                  monthDate)
    ELSE st

\* for (let i = 0; i < months; i++) { ... }, from iteration i on.
RECURSIVE MonthLoop(_, _, _, _, _, _)
MonthLoop(sortedEntries, st, start, i, window, out) ==
    IF i >= window THEN out
    ELSE LET monthDate == NewDate(getFullYear(start), getMonth(start) + i)
             next == TakeUpTo(sortedEntries, st, monthDate)
         IN  IF IsNull(next.latestValue)
             THEN MonthLoop(sortedEntries, next, start, i + 1, window, out)
             ELSE MonthLoop(sortedEntries, next, start, i + 1, window,
                            Append(out, Point(monthDate, Val(next.latestValue))))

buildMonthlySeries(recs, fallback, window) ==
    LET sortedEntries == SortByDate(MonthMap(recs, fallback))
    IN  IF sortedEntries = <<>> THEN <<>>
        ELSE LET start == WindowStart(window)
                 st == SkipBefore(sortedEntries,
                                  [pointer |-> 1, latestValue |-> Null], start)
             IN  MonthLoop(sortedEntries, st, start, 0, window, <<>>)

---------------------------------------------------------------------------
\* DashboardPage: what it derives from its state.

\* assetControls.filter((control) => !control.category)
overallControls ==
    SelectSeq(assetControls, LAMBDA control : control.category = NoCategory)

\* categoryControlMap.get(category) ?? []
CategoryControls(category) ==
    SelectSeq(assetControls, LAMBDA control : control.category = category)

\* currentTotal?.current_total
LiveTotal == IF IsNull(currentTotal) THEN Null ELSE Some(Val(currentTotal).current_total)

totalValue ==
    IF Len(overallControls) = 0 THEN Val(Coalesce(LiveTotal, Some(0)))
    ELSE IF Len(overallControls) = 1 THEN overallControls[1].currentTotalValue
    ELSE Last(overallControls).currentTotalValue

\* totalAmount as the live total when positive and else the sum of the
\* assets' current values.
totalAmountSummed ==
    LET summed == [n \in 0..Len(assets) |->
                      IF n = 0 THEN 0
                      ELSE Val(Coalesce(assets[n].current_value, Some(0)))]
        total[n \in 0..Len(assets)] ==
            IF n = 0 THEN 0 ELSE total[n - 1] + summed[n]
    IN  IF ~IsNull(LiveTotal) /\ Val(LiveTotal) > 0 THEN Val(LiveTotal)
        ELSE total[Len(assets)]

\* totalAmount with || in place of ??: a live total of 0 falls back too.
totalAmountOrSnapshot ==
    IF ~IsNull(LiveTotal) /\ Val(LiveTotal) # 0 THEN Val(LiveTotal) ELSE totalValue

\* const totalAmount = currentTotal?.current_total ?? totalValue
totalAmount == Val(Coalesce(LiveTotal, Some(totalValue)))

\* assets.reduce(...): the totals per category, in the order the categories
\* first appear (Object.entries keeps the insertion order).
RECURSIVE CategoryTotals(_)
CategoryTotals(list) ==
    IF list = <<>> THEN <<>>
    ELSE LET acc == CategoryTotals(SubSeq(list, 1, Len(list) - 1))
             asset == Last(list)
             value == Val(Coalesce(asset.current_value, Some(0)))
             i == MapIndex(acc, asset.category)
         IN  IF i = 0 THEN Append(acc, [key |-> asset.category, value |-> value])
             ELSE [acc EXCEPT ![i].value = @ + value]

\* Percent cutting the digits after the second decimal.
PercentTruncated(value, total) == (10000 * value) \div total

\* Number(((value / totalAmount) * 100).toFixed(2)), in hundredths of a percent:
\* the quotient rounded to the nearest hundredth, a half rounding up.
Percent(value, total) == (2 * 10000 * value + total) \div (2 * total)

\* .sort((a, b) => b.rawValue - a.rawValue): stable, descending by rawValue.
RECURSIVE InsertByRawValue(_, _)
InsertByRawValue(sorted, e) ==
    IF sorted = <<>> THEN <<e>>
    ELSE IF Last(sorted).rawValue >= e.rawValue THEN Append(sorted, e)
    ELSE Append(InsertByRawValue(SubSeq(sorted, 1, Len(sorted) - 1), e), Last(sorted))

\* SortByRawValueDesc leaving the entries as they come.
SortByRawValueKeepOrder(s) == s

RECURSIVE SortByRawValueDesc(_)
SortByRawValueDesc(s) ==
    IF s = <<>> THEN <<>>
    ELSE InsertByRawValue(SortByRawValueDesc(SubSeq(s, 1, Len(s) - 1)), Last(s))

categoryDistribution ==
    IF assets = <<>> \/ totalAmount = 0 \/ totalAmount <= 0 THEN <<>>
    ELSE LET positive == SelectSeq(CategoryTotals(assets), LAMBDA t : t.value > 0)
             items == [i \in 1..Len(positive) |->
                          [category |-> positive[i].key,
                           rawValue |-> positive[i].value,
                           percent |-> Percent(positive[i].value, totalAmount)]]
         IN  SortByRawValueDesc(SelectSeq(items, LAMBDA item : item.percent > 0))

\* const topCategory = categoryDistribution[0]
topCategory ==
    IF categoryDistribution = <<>> THEN Null ELSE Some(categoryDistribution[1])

\* categoryDistributionMap.get(category), null when there is no such entry.
DistributionValue(category) ==
    LET hits == {i \in 1..Len(categoryDistribution) :
                    categoryDistribution[i].category = category}
    IN  IF hits = {} THEN Null
        ELSE Some(categoryDistribution[CHOOSE i \in hits : TRUE].rawValue)

\* hiddenCategories.forEach((category) => sum += map.get(category) ?? 0)
hiddenValueSum ==
    LET hidden == SelectSeq(categoryDistribution,
                            LAMBDA item : item.category \in hiddenCategories)
        sum[n \in 0..Len(hidden)] ==
            IF n = 0 THEN 0 ELSE sum[n - 1] + hidden[n].rawValue
    IN  sum[Len(hidden)]

\* Math.max(totalValue - hiddenValueSum, 0)
displayTotalValue ==
    IF totalValue - hiddenValueSum > 0 THEN totalValue - hiddenValueSum ELSE 0

\* visible.reduce((acc, item) => acc + item.rawValue, 0)
RECURSIVE SumRawValues(_)
SumRawValues(items) ==
    IF items = <<>> THEN 0
    ELSE SumRawValues(SubSeq(items, 1, Len(items) - 1)) + Last(items).rawValue

\* visibleCategoryDistribution keeping the percentages of the whole total.
visibleCategoryDistributionStale ==
    SelectSeq(categoryDistribution,
              LAMBDA item : item.category \notin hiddenCategories)

visibleCategoryDistribution ==
    LET visible == SelectSeq(categoryDistribution,
                             LAMBDA item : item.category \notin hiddenCategories)
        visibleTotal == SumRawValues(visible)
    IN  IF visibleTotal <= 0 THEN <<>>
        ELSE [i \in 1..Len(visible) |->
                 [visible[i] EXCEPT !.percent = Percent(visible[i].rawValue,
                                                        visibleTotal)]]

\* CHART_VIEWS[view].category, null for the overall view.
ChartViewKeys == {"overall", "RENDA_FIXA_POS", "RENDA_FIXA_IPCA", "ACOES"}

CHART_VIEWS == [view \in ChartViewKeys |->
                   IF view = "overall" THEN NoCategory ELSE view]

\* viewRecords handing every snapshot loaded to the builder.
viewRecordsUnfiltered == assetControls

viewRecords ==
    IF CHART_VIEWS[viewMode] # NoCategory
    THEN CategoryControls(CHART_VIEWS[viewMode])
    ELSE overallControls

\* The fallbackValue the page computes for the view selected.
viewFallbackValue ==
    LET lastValue == IF viewRecords # <<>>
                     THEN Some(Last(viewRecords).currentTotalValue)
                     ELSE Null
    IN  IF CHART_VIEWS[viewMode] # NoCategory
        THEN Coalesce(DistributionValue(CHART_VIEWS[viewMode]), lastValue)
        ELSE Coalesce(LiveTotal, lastValue)

\* buildMonthlySeries(viewRecords, fallbackValue, 12)
ChartMonths == 12

chartData ==
    IF viewMode = "overall"
    THEN buildQuarterlySeries(viewRecords, viewFallbackValue)
    ELSE buildMonthlySeries(viewRecords, viewFallbackValue, ChartMonths)

\* TransactionStep adding every amount, whatever the type.
TransactionStepUnsigned(map, transaction) ==
    IF isNaN(transaction.transactionDate) THEN map
    ELSE LET key == <<transaction.category,
                      getFullYear(transaction.transactionDate),
                      getMonth(transaction.transactionDate)>>
             i == MapIndex(map, key)
             current == IF i = 0 THEN 0 ELSE map[i].value
         IN  MapSet(map, [key |-> key, value |-> current + transaction.amount])

\* The body of transactions.forEach: one transaction folded into the map of
\* the net amount per category and month.
TransactionStep(map, transaction) ==
    IF isNaN(transaction.transactionDate) THEN map
    ELSE LET key == <<transaction.category,
                      getFullYear(transaction.transactionDate),
                      getMonth(transaction.transactionDate)>>
             i == MapIndex(map, key)
             current == IF i = 0 THEN 0 ELSE map[i].value
             amount == IF transaction.type = "TOP_UP" THEN transaction.amount
                       ELSE 0 - transaction.amount
         IN  MapSet(map, [key |-> key, value |-> current + amount])

RECURSIVE TransactionNet(_)
TransactionNet(list) ==
    IF list = <<>> THEN <<>>
    ELSE TransactionStep(TransactionNet(SubSeq(list, 1, Len(list) - 1)), Last(list))

transactionNetByCategoryMonth == TransactionNet(transactions)

\* transactionNetByCategoryMonth.get(key) ?? 0
NetOf(key) ==
    LET i == MapIndex(transactionNetByCategoryMonth, key)
    IN  IF i = 0 THEN 0 ELSE transactionNetByCategoryMonth[i].value

\* entries.slice().sort((a, b) => time(a) - time(b)): the stable ascending
\* order when every date parses; with a NaN the comparator is inconsistent and
\* the order is implementation-defined: any order.
RECURSIVE InsertByControlDate(_, _)
InsertByControlDate(sorted, e) ==
    IF sorted = <<>> THEN <<e>>
    ELSE IF Last(sorted).controlDate <= e.controlDate THEN Append(sorted, e)
    ELSE Append(InsertByControlDate(SubSeq(sorted, 1, Len(sorted) - 1), e),
                Last(sorted))

RECURSIVE SortByControlDate(_)
SortByControlDate(s) ==
    IF s = <<>> THEN <<>>
    ELSE InsertByControlDate(SortByControlDate(SubSeq(s, 1, Len(s) - 1)), Last(s))

SortOutcomes(entries) ==
    IF \A i \in 1..Len(entries) : ~isNaN(entries[i].controlDate)
    THEN {SortByControlDate(entries)}
    ELSE {[i \in 1..Len(entries) |-> entries[p[i]]] :
             p \in Permutations(1..Len(entries))}

\* PerformanceMonthStep keeping the highest value of each month.
PerformanceMonthStepMax(monthMap, entry) ==
    IF isNaN(entry.controlDate) THEN monthMap
    ELSE LET monthKey == MonthKey(entry.controlDate)
             i == MapIndex(monthMap, monthKey)
         IN  IF i = 0 \/ entry.currentTotalValue > monthMap[i].value
             THEN MapSet(monthMap, [key |-> monthKey,
                                    value |-> entry.currentTotalValue,
                                    timestamp |-> entry.controlDate,
                                    date |-> entry.controlDate,
                                    year |-> getFullYear(entry.controlDate),
                                    month |-> getMonth(entry.controlDate)])
             ELSE monthMap

\* The body of sortedEntries.forEach: one entry folded into the month map,
\* which keeps the entry of the latest timestamp of each month (date is the
\* timestamp again, the field the sort of the series reads).
PerformanceMonthStep(monthMap, entry) ==
    IF isNaN(entry.controlDate) THEN monthMap
    ELSE LET monthKey == MonthKey(entry.controlDate)
             timestamp == entry.controlDate
             i == MapIndex(monthMap, monthKey)
         IN  IF i = 0 \/ timestamp > monthMap[i].timestamp
             THEN MapSet(monthMap, [key |-> monthKey,
                                    value |-> entry.currentTotalValue,
                                    timestamp |-> timestamp,
                                    date |-> timestamp,
                                    year |-> getFullYear(entry.controlDate),
                                    month |-> getMonth(entry.controlDate)])
             ELSE monthMap

RECURSIVE PerformanceMonthMap(_)
PerformanceMonthMap(sortedEntries) ==
    IF sortedEntries = <<>> THEN <<>>
    ELSE PerformanceMonthStep(
             PerformanceMonthMap(SubSeq(sortedEntries, 1, Len(sortedEntries) - 1)),
             Last(sortedEntries))

\* Array.from(monthMap.values()).sort((a, b) => a.timestamp - b.timestamp)
monthlySeries(sortedEntries) == SortByDate(PerformanceMonthMap(sortedEntries))

\* PercentChange taken against the magnitude of adjustedPrevious.
PercentChangeOfMagnitude(deltaValue, adjustedPrevious) ==
    IF adjustedPrevious # 0
    THEN Some([num |-> deltaValue * 100,
               den |-> IF adjustedPrevious < 0 THEN 0 - adjustedPrevious
                       ELSE adjustedPrevious])
    ELSE Null

\* PercentChange reporting 0 when adjustedPrevious is 0.
PercentChangeZero(deltaValue, adjustedPrevious) ==
    IF adjustedPrevious # 0
    THEN Some([num |-> deltaValue * 100, den |-> adjustedPrevious])
    ELSE Some([num |-> 0, den |-> 1])

\* percentChange = (deltaValue / adjustedPrevious) * 100 is kept as the exact
\* fraction num / den.
PercentChange(deltaValue, adjustedPrevious) ==
    IF adjustedPrevious # 0
    THEN Some([num |-> deltaValue * 100, den |-> adjustedPrevious])
    ELSE Null

\* adjustedCurrent and adjustedPrevious: the month's value less the net of
\* the category's transactions of that month.
AdjustedValue(key, monthEntry) ==
    monthEntry.value - NetOf(<<key, monthEntry.year, monthEntry.month>>)

\* DeltaValueOf reporting 0 when there is no previous month.
DeltaValueOfZero(key, series) ==
    IF Len(series) < 2 THEN Some(0)
    ELSE Some(AdjustedValue(key, series[Len(series)])
                - AdjustedValue(key, series[Len(series) - 1]))

\* deltaValue: null unless there is a previous month.
DeltaValueOf(key, series) ==
    IF Len(series) < 2 THEN Null
    ELSE Some(AdjustedValue(key, series[Len(series)])
                - AdjustedValue(key, series[Len(series) - 1]))

\* percentChange: null unless there is a previous month.
PercentChangeOf(key, series) ==
    IF Len(series) < 2 THEN Null
    ELSE PercentChange(Val(DeltaValueOf(key, series)),
                       AdjustedValue(key, series[Len(series) - 1]))

\* CurrentValueOf reporting the adjusted value of the current month.
CurrentValueOfAdjusted(key, series) ==
    Some(AdjustedValue(key, series[Len(series)]))

\* categoryDistributionMap.get(key) ?? currentMonth.value ?? null
CurrentValueOf(key, series) ==
    Coalesce(DistributionValue(key), Some(series[Len(series)].value))

\* One element of categoryPerformance: the category key, with its entries as
\* the sort left them.
CategoryPerformanceOf(key, sortedEntries) ==
    IF sortedEntries = <<>>
    THEN [key |-> key, percentChange |-> Null,
          currentValue |-> DistributionValue(key), deltaValue |-> Null]
    ELSE LET series == monthlySeries(sortedEntries)
         IN  IF series = <<>>
             THEN [key |-> key, percentChange |-> Null,
                   currentValue |-> DistributionValue(key), deltaValue |-> Null]
             ELSE [key |-> key,
                   percentChange |-> PercentChangeOf(key, series),
                   currentValue |-> CurrentValueOf(key, series),
                   deltaValue |-> DeltaValueOf(key, series)]

\* categoryPerformance, given for each tracked category the order its sort
\* left its entries in.
categoryPerformance(order) ==
    [k \in 1..Len(PERFORMANCE_CATEGORIES) |->
        CategoryPerformanceOf(PERFORMANCE_CATEGORIES[k], order[k])]

---------------------------------------------------------------------------
\* The inputs the specifications draw from.

\* The clock: the first day of a quarter's first month (July of year 2) and
\* the last day of a quarter's last month (September of year 2).
NowDates == {NewDate(2, 6), NewDate(2, 8) + (DaysPerMonth - 1)}

Values == {100, 120, 150}

LiveValues == {Null, Some(0), Some(130)}

\* The first day of the months from MaxBack months before the current one to
\* the month after it (a controlDate is parsed in local time and may fall
\* after the client's clock), the last day of the current month, and the
\* unparseable date.
ControlDates(clock) ==
    {NewDate(getFullYear(clock), getMonth(clock) + k) : k \in (0 - MaxBack)..1}
    \cup {StartOfMonth(clock) + (DaysPerMonth - 1), InvalidDate}

Control(ts, value, category) ==
    [controlDate |-> ts, currentTotalValue |-> value, category |-> category]

\* fetchAssetControls returns data.sort((a, b) => time(a) - time(b)): ascending
\* by controlDate; a NaN makes the comparator inconsistent and the order is
\* then whatever the engine leaves.
IsSortOutcome(s) ==
    (\A i \in 1..Len(s) : ~isNaN(s[i].controlDate))
        => \A i \in 1..(Len(s) - 1) : s[i].controlDate <= s[i + 1].controlDate

ControlSeqsOf(dates, values, categories, n) ==
    {s \in SeqsUpTo({Control(ts, v, c) :
                        ts \in dates, v \in values, c \in categories}, n) :
        IsSortOutcome(s)}

\* The same, every record of unparseable date carrying one value.
ControlSeqsOneInvalid(dates, values, invalidValue, categories, n) ==
    {s \in ControlSeqsOf(dates, values, categories, n) :
        \A i \in 1..Len(s) :
            isNaN(s[i].controlDate) => s[i].currentTotalValue = invalidValue}

ControlSeqs(clock, values, invalidValue, categories, n) ==
    ControlSeqsOneInvalid(ControlDates(clock), values, invalidValue, categories, n)

---------------------------------------------------------------------------
\* The quarterly builder applied to every input.

InitQuarterly ==
    /\ now \in NowDates
    /\ records \in ControlSeqs(now, Values, 120, {NoCategory}, MaxRecords)
    /\ fallbackValue \in LiveValues
    /\ months = 0
    /\ assetControls = <<>>
    /\ currentTotal = Null
    /\ assets = <<>>
    /\ transactions = <<>>
    /\ hiddenCategories = {}
    /\ viewMode = "overall"
    /\ pc = "ready"
    /\ result = <<>>
    /\ LoadSettled
    /\ DialogClosed

CallBuildQuarterlySeries ==
    /\ pc = "ready"
    /\ result' = buildQuarterlySeries(records, fallbackValue)
    /\ pc' = "done"
    /\ UNCHANGED <<now, records, fallbackValue, months, assetControls,
                   currentTotal, assets, transactions, hiddenCategories,
                   viewMode>>
    /\ UNCHANGED <<loadVars, dialogVars>>

NextQuarterly == CallBuildQuarterlySeries

SpecQuarterly == InitQuarterly /\ [][NextQuarterly]_vars

---------------------------------------------------------------------------
\* The trailing-months builder applied to every input.

InitMonthly ==
    /\ now = NewDate(2, 1) + (DaysPerMonth - 1)
    /\ records \in ControlSeqs(now, {100, 150}, 150, {"ACOES"}, MaxRecords)
    /\ fallbackValue \in LiveValues
    /\ months \in 0..MaxWindow
    /\ assetControls = <<>>
    /\ currentTotal = Null
    /\ assets = <<>>
    /\ transactions = <<>>
    /\ hiddenCategories = {}
    /\ viewMode = "overall"
    /\ pc = "ready"
    /\ result = <<>>
    /\ LoadSettled
    /\ DialogClosed

CallBuildMonthlySeries ==
    /\ pc = "ready"
    /\ result' = buildMonthlySeries(records, fallbackValue, months)
    /\ pc' = "done"
    /\ UNCHANGED <<now, records, fallbackValue, months, assetControls,
                   currentTotal, assets, transactions, hiddenCategories,
                   viewMode>>
    /\ UNCHANGED <<loadVars, dialogVars>>

NextMonthly == CallBuildMonthlySeries

SpecMonthly == InitMonthly /\ [][NextMonthly]_vars

---------------------------------------------------------------------------
\* The category distribution computed from every loaded state.

Asset(category, value) == [category |-> category, current_value |-> value]

AssetSeqs ==
    SeqsUpTo({Asset(c, v) : c \in {"ACOES", "IMOVEIS"},
                            v \in {Null, Some(0), Some(100), Some(300)}}, MaxAssets)

LiveTotals ==
    {Null} \cup {Some([current_total |-> t]) : t \in {0 - 100, 0, 400, 3000000}}

InitDistribution ==
    /\ now \in {NewDate(2, 6)}
    /\ records = <<>>
    /\ fallbackValue = Null
    /\ months = 0
    /\ assetControls \in ControlSeqsOf({NewDate(2, 6)}, {0, 400, 800},
                                       {NoCategory}, MaxRecords)
    /\ currentTotal \in LiveTotals
    /\ assets \in AssetSeqs
    /\ transactions = <<>>
    /\ hiddenCategories = {}
    /\ viewMode = "overall"
    /\ pc = "ready"
    /\ result = <<>>
    /\ LoadSettled
    /\ DialogClosed

ComputeCategoryDistribution ==
    /\ pc = "ready"
    /\ result' = categoryDistribution
    /\ pc' = "done"
    /\ UNCHANGED <<now, records, fallbackValue, months, assetControls,
                   currentTotal, assets, transactions, hiddenCategories,
                   viewMode>>
    /\ UNCHANGED <<loadVars, dialogVars>>

NextDistribution == ComputeCategoryDistribution

SpecDistribution == InitDistribution /\ [][NextDistribution]_vars

---------------------------------------------------------------------------
\* The visible distribution computed from every loaded state and setting.

\* settings.hideImoveis and settings.hideCarros, each on or off.
HiddenSets == SUBSET {"IMOVEIS", "CARROS"}

InitVisible ==
    /\ now = NewDate(2, 6)
    /\ records = <<>>
    /\ fallbackValue = Null
    /\ months = 0
    /\ assetControls \in {<<>>, <<Control(NewDate(2, 6), 400, NoCategory)>>}
    /\ currentTotal \in {Null, Some([current_total |-> 1000]),
                         Some([current_total |-> 3000000])}
    /\ assets \in SeqsUpTo({Asset(c, v) : c \in {"ACOES", "IMOVEIS", "CARROS"},
                                         v \in {Some(0), Some(100), Some(200)}},
                           MaxAssets + 1)
    /\ transactions = <<>>
    /\ hiddenCategories \in HiddenSets
    /\ viewMode = "overall"
    /\ pc = "ready"
    /\ result = <<>>
    /\ LoadSettled
    /\ DialogClosed

ComputeVisibleCategoryDistribution ==
    /\ pc = "ready"
    /\ result' = visibleCategoryDistribution
    /\ pc' = "done"
    /\ UNCHANGED <<now, records, fallbackValue, months, assetControls,
                   currentTotal, assets, transactions, hiddenCategories,
                   viewMode>>
    /\ UNCHANGED <<loadVars, dialogVars>>

NextVisible == ComputeVisibleCategoryDistribution

SpecVisible == InitVisible /\ [][NextVisible]_vars

---------------------------------------------------------------------------
\* The chart of every view computed from every loaded state.

\* Overall snapshots and snapshots of a tracked and of another category, in
\* the previous and in the current month.
ViewControls(clock) ==
    {Control(ts, v, c) :
        ts \in {NewDate(getFullYear(clock), getMonth(clock) - 1), StartOfMonth(clock)},
        v \in {100, 150},
        c \in {NoCategory, "ACOES", "IMOVEIS"}}

InitView ==
    /\ now = NewDate(2, 8) + (DaysPerMonth - 1)
    /\ records = <<>>
    /\ fallbackValue = Null
    /\ months = 0
    /\ assetControls \in {s \in SeqsUpTo(ViewControls(now), MaxRecords) :
                              IsSortOutcome(s)}
    /\ currentTotal \in {Null, Some([current_total |-> 500])}
    /\ assets \in {<<>>, <<Asset("ACOES", Some(300))>>}
    /\ transactions = <<>>
    /\ hiddenCategories = {}
    /\ viewMode \in ChartViewKeys
    /\ pc = "ready"
    /\ result = <<>>
    /\ LoadSettled
    /\ DialogClosed

\* The chart is computed: the builder of the view is called on the records
\* and the fallback value of the view.
ComputeChartData ==
    /\ pc = "ready"
    /\ records' = viewRecords
    /\ fallbackValue' = viewFallbackValue
    /\ months' = IF viewMode = "overall" THEN 0 ELSE ChartMonths
    /\ result' = chartData
    /\ pc' = "done"
    /\ UNCHANGED <<now, assetControls, currentTotal, assets, transactions,
                   hiddenCategories, viewMode>>
    /\ UNCHANGED <<loadVars, dialogVars>>

NextView == ComputeChartData

SpecView == InitView /\ [][NextView]_vars

---------------------------------------------------------------------------
\* The category performance computed from every loaded state.

Transaction(category, amount, ts, type) ==
    [category |-> category, amount |-> amount, transactionDate |-> ts,
     type |-> type]

\* A top-up of the tracked category in the current month, a withdrawal and a
\* top-up in the previous month, a top-up of another category and one of
\* unparseable date.
TransactionSet(clock) ==
    {Transaction("ACOES", 150, clock, "TOP_UP"),
     Transaction("ACOES", 200, NewDate(getFullYear(clock), getMonth(clock) - 1),
                 "WITHDRAW"),
     Transaction("ACOES", 1000, NewDate(getFullYear(clock), getMonth(clock) - 1),
                 "TOP_UP"),
     Transaction("IMOVEIS", 150, clock, "TOP_UP"),
     Transaction("ACOES", 150, InvalidDate, "TOP_UP")}

\* The snapshots of the tracked category: 1200 two months before the current
\* one (January of year 2: the months before it are of year 1), 1000 in the
\* previous month, 1000 and 1200 on the first day of the current month, 1000
\* on its last day, and 1200 at an unparseable date.
PerformanceControls(clock) ==
    {Control(NewDate(getFullYear(clock), getMonth(clock) - 2), 1200, "ACOES"),
     Control(NewDate(getFullYear(clock), getMonth(clock) - 1), 1000, "ACOES"),
     Control(StartOfMonth(clock), 1000, "ACOES"),
     Control(StartOfMonth(clock), 1200, "ACOES"),
     Control(StartOfMonth(clock) + (DaysPerMonth - 1), 1000, "ACOES"),
     Control(InvalidDate, 1200, "ACOES")}

\* The records of parseable date come first, in ascending order.
ParseableFirst(s) ==
    \A i \in 1..(Len(s) - 1) :
        \/ isNaN(s[i + 1].controlDate)
        \/ /\ ~isNaN(s[i].controlDate)
           /\ s[i].controlDate <= s[i + 1].controlDate

InitPerformance ==
    /\ now \in {NewDate(2, 0) + (DaysPerMonth - 1)}
    /\ records = <<>>
    /\ fallbackValue = Null
    /\ months = 0
    /\ assetControls \in
           {s \in SeqsUpTo(PerformanceControls(now), MaxRecords) :
               IsSortOutcome(s) /\ ParseableFirst(s)}
    /\ currentTotal = Some([current_total |-> 1000])
    /\ assets \in {<<>>, <<Asset("ACOES", Some(300))>>}
    /\ transactions \in SeqsUpTo(TransactionSet(now), MaxTransactions)
    /\ hiddenCategories = {}
    /\ viewMode = "overall"
    /\ pc = "ready"
    /\ result = <<>>
    /\ LoadSettled
    /\ DialogClosed

\* The orders the sorts of categoryPerformance may leave the entries in.
SortChoices ==
    {<<a, b, c>> :
        a \in SortOutcomes(CategoryControls(PERFORMANCE_CATEGORIES[1])),
        b \in SortOutcomes(CategoryControls(PERFORMANCE_CATEGORIES[2])),
        c \in SortOutcomes(CategoryControls(PERFORMANCE_CATEGORIES[3]))}

ComputeCategoryPerformance ==
    /\ pc = "ready"
    /\ \E order \in SortChoices : result' = categoryPerformance(order)
    /\ pc' = "done"
    /\ UNCHANGED <<now, records, fallbackValue, months, assetControls,
                   currentTotal, assets, transactions, hiddenCategories,
                   viewMode>>
    /\ UNCHANGED <<loadVars, dialogVars>>

NextPerformance == ComputeCategoryPerformance

SpecPerformance == InitPerformance /\ [][NextPerformance]_vars

---------------------------------------------------------------------------
\* What the claims about the quarterly builder speak of, stated on the input
\* directly: the calendar quarters that hold a snapshot and their peaks.

Max(S) == CHOOSE x \in S : \A y \in S : y <= x

Min(S) == CHOOSE x \in S : \A y \in S : x <= y

RECURSIVE Ascending(_)
Ascending(S) == IF S = {} THEN <<>> ELSE <<Min(S)>> \o Ascending(S \ {Min(S)})

Parseable(recs) == {i \in 1..Len(recs) : recs[i].controlDate # InvalidDate}

\* Quarters and months are counted from January of year 0.
QuarterOf(ts) == ts \div (3 * DaysPerMonth)

QuarterStartOf(q) == q * 3 * DaysPerMonth

MonthOf(ts) == ts \div DaysPerMonth

MonthStartOf(m) == m * DaysPerMonth

QuartersOf(recs) == {QuarterOf(recs[i].controlDate) : i \in Parseable(recs)}

QuarterPeak(recs, q) ==
    Max({recs[i].currentTotalValue :
            i \in {j \in Parseable(recs) : QuarterOf(recs[j].controlDate) = q}})

\* One <<timestamp, value>> per quarter that holds a snapshot, ascending.
QuarterPeaks(recs) ==
    LET qs == Ascending(QuartersOf(recs))
    IN  [i \in 1..Len(qs) |-> <<QuarterStartOf(qs[i]), QuarterPeak(recs, qs[i])>>]

\* A series as its <<timestamp, value>> pairs.
Pairs(series) == [i \in 1..Len(series) |-> <<series[i].date, series[i].value>>]

HasPair(series, ts, value) ==
    \E i \in 1..Len(series) : series[i].date = ts /\ series[i].value = value

ThisMonth == MonthStartOf(MonthOf(now))

\* The latest quarter that holds a snapshot starts in the current month.
LastBucketIsThisMonth(recs) ==
    QuartersOf(recs) # {} /\ QuarterStartOf(Max(QuartersOf(recs))) = ThisMonth

QuarterlyDone == pc = "done"

\* C3 as stated: every calendar quarter that holds a snapshot is represented in
\* the output by a point whose value is the maximum totalValue of the
\* snapshots dated in that quarter, whatever the live value.
C3_EveryQuarterCarriesItsPeak ==
    QuarterlyDone =>
        \A q \in QuartersOf(records) :
            HasPair(result, QuarterStartOf(q), QuarterPeak(records, q))

\* C3 amended: every calendar quarter that holds a snapshot is represented by
\* a point at the quarter's start whose value is the maximum totalValue of the
\* quarter's snapshots, except the latest such quarter when it starts in the
\* current month: its point carries the current value (the live value, or the
\* last record's totalValue when there is no live value).
C3_QuarterPeakUnlessOverridden ==
    QuarterlyDone =>
        \A q \in QuartersOf(records) :
            IF q = Max(QuartersOf(records)) /\ QuarterStartOf(q) = ThisMonth
            THEN /\ Last(result).date = ThisMonth
                 /\ Last(result).value =
                        IF fallbackValue # Null THEN fallbackValue[1]
                        ELSE records[Len(records)].currentTotalValue
            ELSE HasPair(result, QuarterStartOf(q), QuarterPeak(records, q))

\* C3 witness: an earlier quarter holds two snapshots of different values and
\* the latest quarter, which starts in the current month, was overridden by a
\* live value that is not its peak.
C3_Witness ==
    /\ QuarterlyDone
    /\ Cardinality(QuartersOf(records)) = 2
    /\ LastBucketIsThisMonth(records)
    /\ fallbackValue = Some(130)
    /\ Pairs(result) = <<<<QuarterStartOf(Min(QuartersOf(records))), 150>>,
                         <<ThisMonth, 130>>>>
    /\ \E i, j \in Parseable(records) :
          /\ QuarterOf(records[i].controlDate) = QuarterOf(records[j].controlDate)
          /\ records[i].currentTotalValue = 150
          /\ records[j].currentTotalValue = 100

\* C4 as stated: the timestamps of the returned points are strictly ascending.
C4_StrictlyAscending ==
    QuarterlyDone =>
        \A i \in 1..(Len(result) - 1) : result[i].date < result[i + 1].date

\* C5 as stated: with no live value the output is exactly one point per
\* calendar quarter that holds a snapshot (the quarter's start and its peak)
\* and no other point.
C5_NoLiveValueOnlyQuarterPeaks ==
    (QuarterlyDone /\ fallbackValue = Null) =>
        Pairs(result) = QuarterPeaks(records)

\* C5 amended: with no live value and at least one record the builder takes
\* the last record's totalValue as the current value: the output is one point
\* per calendar quarter that holds a snapshot, followed by a point at the
\* current month carrying that value, or, when the latest such quarter starts
\* in the current month, with that quarter's point carrying that value; with
\* no record at all the output is empty.
C5_NoLiveValueUsesLastRecord ==
    (QuarterlyDone /\ fallbackValue = Null) =>
        LET peaks == QuarterPeaks(records)
            last == <<ThisMonth, records[Len(records)].currentTotalValue>>
        IN  IF records = <<>> THEN result = <<>>
            ELSE IF LastBucketIsThisMonth(records)
            THEN Pairs(result) = SubSeq(peaks, 1, Len(peaks) - 1) \o <<last>>
            ELSE Pairs(result) = peaks \o <<last>>

\* C5 witness: three snapshots 100, 150, 120 of one quarter (July, August,
\* September) and no live value gave the quarter's peak and then a point at
\* the current month carrying the last record's 120.
C5_Witness ==
    /\ QuarterlyDone
    /\ fallbackValue = Null
    /\ Len(records) = 3
    /\ [i \in 1..3 |-> records[i].currentTotalValue] = <<100, 150, 120>>
    /\ MonthOf(now) % 3 = 2
    /\ [i \in 1..3 |-> MonthOf(records[i].controlDate)]
           = <<MonthOf(now) - 2, MonthOf(now) - 1, MonthOf(now)>>
    /\ Pairs(result) = <<<<MonthStartOf(MonthOf(now) - 2), 150>>, <<ThisMonth, 120>>>>

\* C6: with a live value and at least one snapshot, when the last bucket is the
\* current month's its value is replaced by the live value and no point is
\* added; otherwise exactly the point (current month, live value) is appended
\* after the buckets.  Either way the earlier buckets are unchanged and the
\* final point carries the live value.
C6_LiveValueReplacesOrAppends ==
    (QuarterlyDone /\ fallbackValue # Null /\ records # <<>>) =>
        LET peaks == QuarterPeaks(records)
            live == <<ThisMonth, fallbackValue[1]>>
        IN  /\ Last(result).value = fallbackValue[1]
            /\ IF LastBucketIsThisMonth(records)
               THEN Pairs(result) = SubSeq(peaks, 1, Len(peaks) - 1) \o <<live>>
               ELSE Pairs(result) = peaks \o <<live>>

\* C6 witness: the last of two buckets is the current month's and its peak 150
\* was replaced by the live value 130, the earlier bucket keeping its 100.
C6_Witness ==
    /\ QuarterlyDone
    /\ fallbackValue = Some(130)
    /\ LastBucketIsThisMonth(records)
    /\ Len(QuarterPeaks(records)) = 2
    /\ QuarterPeaks(records)[1][2] = 100
    /\ QuarterPeaks(records)[2][2] = 150
    /\ Len(result) = 2
    /\ result[1].value = 100
    /\ result[2].value = 130

---------------------------------------------------------------------------
\* What the claims about the trailing-months builder speak of, stated on the
\* input directly.

MonthlyDone == pc = "done"

HasLive == fallbackValue # Null

\* The values a month has of its own: its snapshots', and the live value in
\* the current month.
OwnValues(recs, m) ==
    {recs[i].currentTotalValue :
        i \in {j \in Parseable(recs) : MonthOf(recs[j].controlDate) = m}}
    \cup (IF HasLive /\ m = MonthOf(now) THEN {fallbackValue[1]} ELSE {})

MonthsWithValue(recs) ==
    {MonthOf(recs[i].controlDate) : i \in Parseable(recs)}
    \cup (IF HasLive THEN {MonthOf(now)} ELSE {})

PerMonthValue(recs, m) == Max(OwnValues(recs, m))

\* The months of the window: windowSize months ending at the current month.
WindowMonths == (MonthOf(now) - (months - 1))..MonthOf(now)

PointsAt(series, m) == {i \in 1..Len(series) : series[i].date = MonthStartOf(m)}

\* C7: the output has at most windowSize points, every point is the first day
\* of a month of the window of windowSize months ending at the current month,
\* and consecutive points are exactly one calendar month apart.
C7_WindowedAndGapFree ==
    MonthlyDone =>
        /\ Len(result) <= months
        /\ \A i \in 1..Len(result) :
              \E m \in WindowMonths : result[i].date = MonthStartOf(m)
        /\ \A i \in 1..(Len(result) - 1) :
              MonthOf(result[i + 1].date) = MonthOf(result[i].date) + 1

\* C7 witness: a window of three months came out full, its first point being
\* the window's first month.
C7_Witness ==
    /\ MonthlyDone
    /\ months = 3
    /\ Len(result) = 3
    /\ result[1].date = MonthStartOf(MonthOf(now) - 2)
    /\ result[3].date = ThisMonth

\* C8: a window month with a month that has a value at or before it (a month
\* before the window included) gets exactly one point, whose value is the
\* per-month value of the most recent such month; a window month before the
\* earliest month that has a value gets no point.
C8_ForwardFill ==
    MonthlyDone =>
        \A m \in WindowMonths :
            LET known == {k \in MonthsWithValue(records) : k <= m}
            IN  IF known = {} THEN PointsAt(result, m) = {}
                ELSE /\ Cardinality(PointsAt(result, m)) = 1
                     /\ \A i \in PointsAt(result, m) :
                           result[i].value = PerMonthValue(records, Max(known))

\* C8 witness: the only snapshot is dated before the window and its value was
\* carried into every month of a three-month window.
C8_Witness ==
    /\ MonthlyDone
    /\ months = 3
    /\ ~HasLive
    /\ MonthsWithValue(records) = {MonthOf(now) - 3}
    /\ Len(result) = 3
    /\ \A i \in 1..3 : result[i].value = 150

\* C9: each month's value in the per-month map is the maximum snapshot value
\* of that month; with a live value the current month's value is the larger of
\* the live value and the month's maximum snapshot value (the live value alone
\* when the month has no snapshot), and no other month's value changes.  The
\* current month's point of the output carries that value.
C9_PerMonthMaximum ==
    MonthlyDone =>
        LET monthMap == MonthMap(records, fallbackValue)
            withoutLive == MonthMap(records, Null)
        IN  /\ {MonthOf(monthMap[i].date) : i \in 1..Len(monthMap)}
                   = MonthsWithValue(records)
            /\ \A i \in 1..Len(monthMap) :
                  /\ monthMap[i].date = MonthStartOf(MonthOf(monthMap[i].date))
                  /\ monthMap[i].value =
                        PerMonthValue(records, MonthOf(monthMap[i].date))
                  /\ \A j \in 1..(i - 1) : monthMap[j].date # monthMap[i].date
            /\ \A i \in 1..Len(withoutLive) :
                  withoutLive[i].date # ThisMonth
                      => \E j \in 1..Len(monthMap) : monthMap[j] = withoutLive[i]
            /\ (months >= 1 /\ OwnValues(records, MonthOf(now)) # {})
                  => HasPair(result, ThisMonth, PerMonthValue(records, MonthOf(now)))

\* C9 witness: the current month holds snapshots of 100 and 150 and the live
\* value is 130: the month keeps its maximum snapshot value 150.
C9_Witness ==
    /\ MonthlyDone
    /\ months >= 1
    /\ fallbackValue = Some(130)
    /\ {records[i].currentTotalValue :
           i \in {j \in Parseable(records) :
                     MonthOf(records[j].controlDate) = MonthOf(now)}} = {100, 150}
    /\ Last(result).value = 150

---------------------------------------------------------------------------
\* What the claims about the performance calculator speak of, stated on the
\* loaded snapshots and transactions directly.

RECURSIVE Sum(_, _)
Sum(f, S) ==
    IF S = {} THEN 0
    ELSE LET x == CHOOSE y \in S : TRUE IN f[x] + Sum(f, S \ {x})

PerformanceDone == pc = "done"

\* The snapshots of a category whose date parses.
SnapshotsOf(key) ==
    {i \in 1..Len(assetControls) :
        /\ assetControls[i].category = key
        /\ assetControls[i].controlDate # InvalidDate}

SnapshotsIn(key, m) ==
    {i \in SnapshotsOf(key) : MonthOf(assetControls[i].controlDate) = m}

SnapshotMonths(key) ==
    {MonthOf(assetControls[i].controlDate) : i \in SnapshotsOf(key)}

\* The values of the snapshots that carry the latest timestamp of month m.
LatestValues(key, m) ==
    LET latest == Max({assetControls[i].controlDate : i \in SnapshotsIn(key, m)})
    IN  {assetControls[i].currentTotalValue :
            i \in {j \in SnapshotsIn(key, m) : assetControls[j].controlDate = latest}}

MonthMaximum(key, m) ==
    Max({assetControls[i].currentTotalValue : i \in SnapshotsIn(key, m)})

\* The transactions of a category dated in month m, of one kind.
TransactionsIn(key, m, kind) ==
    {j \in 1..Len(transactions) :
        /\ transactions[j].category = key
        /\ transactions[j].type = kind
        /\ transactions[j].transactionDate # InvalidDate
        /\ MonthOf(transactions[j].transactionDate) = m}

\* Sum of the month's TopUp amounts minus sum of its Withdraw amounts.
NetCashFlow(key, m) ==
    LET amount == [j \in 1..Len(transactions) |-> transactions[j].amount]
    IN  Sum(amount, TransactionsIn(key, m, "TOP_UP"))
          - Sum(amount, TransactionsIn(key, m, "WITHDRAW"))

CurrentMonthOf(key) == Max(SnapshotMonths(key))

PreviousMonthOf(key) == Max(SnapshotMonths(key) \ {CurrentMonthOf(key)})

\* C1: for a tracked category with snapshots in at least two distinct months,
\* deltaValue = (current month value - current month's net cash flow)
\* - (previous month value - previous month's net cash flow), a month's net
\* cash flow being the sum of the category's TopUp amounts minus the sum of
\* its Withdraw amounts dated in that month.
C1_DeltaIsCashFlowAdjusted ==
    PerformanceDone =>
        \A k \in 1..Len(PERFORMANCE_CATEGORIES) :
            LET key == PERFORMANCE_CATEGORIES[k]
            IN  Cardinality(SnapshotMonths(key)) >= 2 =>
                    \E cv \in LatestValues(key, CurrentMonthOf(key)),
                       pv \in LatestValues(key, PreviousMonthOf(key)) :
                        result[k].deltaValue =
                            <<(cv - NetCashFlow(key, CurrentMonthOf(key)))
                              - (pv - NetCashFlow(key, PreviousMonthOf(key)))>>

\* C1 witness: snapshots 1000 then 1200 in consecutive months and one top-up
\* of 150 in the later month gave deltaValue 50 and percentChange 5.
C1_Witness ==
    /\ PerformanceDone
    /\ [i \in 1..Len(assetControls) |-> assetControls[i].currentTotalValue]
           = <<1000, 1200>>
    /\ Cardinality(SnapshotMonths("ACOES")) = 2
    /\ Len(transactions) = 1
    /\ NetCashFlow("ACOES", CurrentMonthOf("ACOES")) = 150
    /\ result[3].deltaValue = <<50>>
    /\ result[3].percentChange # <<>>
    /\ result[3].percentChange[1].num = 5 * result[3].percentChange[1].den

\* C2 as stated: the monthly value used for the current/previous comparison is
\* the maximum totalValue among the month's snapshots.
C2_MonthlyValueIsMonthMaximum ==
    PerformanceDone =>
        \A k \in 1..Len(PERFORMANCE_CATEGORIES) :
            LET key == PERFORMANCE_CATEGORIES[k]
            IN  Cardinality(SnapshotMonths(key)) >= 2 =>
                    result[k].deltaValue =
                        <<(MonthMaximum(key, CurrentMonthOf(key))
                             - NetCashFlow(key, CurrentMonthOf(key)))
                          - (MonthMaximum(key, PreviousMonthOf(key))
                             - NetCashFlow(key, PreviousMonthOf(key)))>>

\* C2 amended: computePerformance reduces a category's snapshots to one value
\* per calendar month by the latest-of-month rule: for every month that has
\* snapshots, the monthly value used for the current/previous comparison is
\* the totalValue of a snapshot carrying the month's latest timestamp (not the
\* Series Builder's maximum), whatever the order of the snapshots.
C2_MonthlyValueIsLatestOfMonth ==
    PerformanceDone =>
        \A k \in 1..Len(PERFORMANCE_CATEGORIES) :
            LET key == PERFORMANCE_CATEGORIES[k]
            IN  /\ \A order \in SortChoices :
                      LET series == monthlySeries(order[k])
                      IN  /\ [i \in 1..Len(series) |-> series[i].year * 12 + series[i].month]
                                 = Ascending(SnapshotMonths(key))
                          /\ \A i \in 1..Len(series) :
                                series[i].value \in
                                    LatestValues(key, series[i].year * 12 + series[i].month)
                /\ (SnapshotMonths(key) # {} /\ assets = <<>>) =>
                       \E cv \in LatestValues(key, CurrentMonthOf(key)) :
                           result[k].currentValue = <<cv>>
                /\ (Cardinality(SnapshotMonths(key)) >= 2 /\ transactions = <<>>) =>
                       \E cv \in LatestValues(key, CurrentMonthOf(key)),
                          pv \in LatestValues(key, PreviousMonthOf(key)) :
                           result[k].deltaValue = <<cv - pv>>

\* C2 witness: the current month holds a snapshot of 1200 and a later one of
\* 1000, the previous month one of 1000, and there is no transaction: the
\* comparison used the later 1000 and deltaValue is 0.
C2_Witness ==
    /\ PerformanceDone
    /\ transactions = <<>>
    /\ Cardinality(SnapshotMonths("ACOES")) = 2
    /\ MonthMaximum("ACOES", CurrentMonthOf("ACOES")) = 1200
    /\ LatestValues("ACOES", CurrentMonthOf("ACOES")) = {1000}
    /\ LatestValues("ACOES", PreviousMonthOf("ACOES")) = {1000}
    /\ result[3].deltaValue = <<0>>

---------------------------------------------------------------------------
\* What the claims about the distribution speak of.

DistributionDone == pc = "done"

\* The summed total of the per-asset current values (a missing value is 0).
SummedTotal ==
    Sum([i \in 1..Len(assets) |->
            IF assets[i].current_value = <<>> THEN 0 ELSE assets[i].current_value[1]],
        1..Len(assets))

\* The summed current values of the assets of one category.
CategorySum(c) ==
    Sum([i \in 1..Len(assets) |->
            IF assets[i].current_value = <<>> THEN 0 ELSE assets[i].current_value[1]],
        {i \in 1..Len(assets) : assets[i].category = c})

\* The totalValue of the last overall snapshot loaded, 0 when there is none.
LastOverallValue ==
    LET overall == {i \in 1..Len(assetControls) : assetControls[i].category = ""}
    IN  IF overall = {} THEN 0 ELSE assetControls[Max(overall)].currentTotalValue

\* percent (in hundredths of a percent) is raw / total * 100 rounded to two
\* decimals.
IsRoundedPercent(percent, raw, total) ==
    /\ 2 * percent * total - total <= 2 * 10000 * raw
    /\ 2 * 10000 * raw < 2 * percent * total + total

\* C10 as stated: the denominator of every percentage is the live total when
\* it is present and positive, and otherwise the summed total of the per-asset
\* current values.
C10_TotalIsLiveOrSummed ==
    DistributionDone =>
        LET total == IF currentTotal # <<>> /\ currentTotal[1].current_total > 0
                     THEN currentTotal[1].current_total
                     ELSE SummedTotal
        IN  \A i \in 1..Len(result) :
                total > 0 /\ IsRoundedPercent(result[i].percent, result[i].rawValue, total)

\* C10 amended: the denominator of every percentage is the live total whenever
\* a live total is present, whatever its sign, and otherwise the totalValue of
\* the last overall snapshot (0 when there is none); when that total is zero
\* or negative the distribution is empty, and a category whose share of a
\* positive total is at least half a hundredth of a percent is reported.
C10_TotalIsLiveOrLastSnapshot ==
    DistributionDone =>
        LET total == IF currentTotal # <<>> THEN currentTotal[1].current_total
                     ELSE LastOverallValue
        IN  /\ total <= 0 => result = <<>>
            /\ \A i \in 1..Len(result) :
                  IsRoundedPercent(result[i].percent, result[i].rawValue, total)
            /\ \A c \in CATEGORIES :
                  (total > 0 /\ 2 * 10000 * CategorySum(c) >= total)
                      => \E i \in 1..Len(result) :
                            /\ result[i].category = c
                            /\ result[i].rawValue = CategorySum(c)

\* C10 witness: no live total, the last overall snapshot is 800 and the assets
\* sum to 400: the only category is reported with 50 percent of 800.
C10_Witness ==
    /\ DistributionDone
    /\ currentTotal = <<>>
    /\ LastOverallValue = 800
    /\ SummedTotal = 400
    /\ Len(result) = 1
    /\ result[1].rawValue = 400
    /\ result[1].percent = 5000

\* The total the percentages are taken of: the live total when there is one,
\* else the totalValue of the last overall snapshot (0 when there is none).
TotalUsed ==
    IF currentTotal # <<>> THEN currentTotal[1].current_total ELSE LastOverallValue

\* The categories reported.
Reported == {result[i].category : i \in 1..Len(result)}

\* C11: the distribution is empty whenever there is no asset or the total
\* used for the percentages is zero or negative (a total of 0 with assets
\* present gives the empty distribution): no entry is produced.
C11_EmptyWithoutAssetsOrTotal ==
    DistributionDone =>
        ((assets = <<>> \/ TotalUsed <= 0) => result = <<>>)

\* C11 witness: assets of positive value and an overall snapshot of positive
\* value are loaded, the live total is 0, and the distribution is empty.
C11_Witness ==
    /\ DistributionDone
    /\ currentTotal = <<[current_total |-> 0]>>
    /\ SummedTotal > 0
    /\ LastOverallValue > 0
    /\ result = <<>>

\* C12: each entry's rawValue is the sum of the current values of the assets
\* of its category, its percent is rawValue / total * 100 rounded to two
\* decimals and is positive, no category is reported twice, and a category
\* is reported exactly when its sum is positive and its percent rounds to
\* more than 0.
C12_RawValueAndRoundedPercent ==
    DistributionDone =>
        /\ \A i \in 1..Len(result) :
              /\ result[i].rawValue = CategorySum(result[i].category)
              /\ IsRoundedPercent(result[i].percent, result[i].rawValue, TotalUsed)
              /\ result[i].percent > 0
        /\ Cardinality(Reported) = Len(result)
        /\ (assets # <<>> /\ TotalUsed > 0) =>
               \A c \in CATEGORIES :
                   c \in Reported <=>
                       (CategorySum(c) > 0 /\ 2 * 10000 * CategorySum(c) >= TotalUsed)

\* C12 witness: of a total of 3000000, a category holding 100 (0.0033 percent,
\* which rounds to 0.00) is dropped and the category holding 300 is reported
\* with 0.01 percent.
C12_Witness ==
    /\ DistributionDone
    /\ TotalUsed = 3000000
    /\ CategorySum("ACOES") = 100
    /\ CategorySum("IMOVEIS") = 300
    /\ Len(result) = 1
    /\ result[1].category = "IMOVEIS"
    /\ result[1].rawValue = 300
    /\ result[1].percent = 1

\* C13: the entries are in descending order of rawValue, and the top category
\* shown is the first entry, the one with the largest holding.
C13_DescendingByRawValue ==
    DistributionDone =>
        /\ \A i \in 1..(Len(result) - 1) : result[i].rawValue >= result[i + 1].rawValue
        /\ result = <<>> => topCategory = <<>>
        /\ result # <<>> =>
               /\ topCategory = <<result[1]>>
               /\ \A c \in Reported : topCategory[1].rawValue >= CategorySum(c)

\* C13 witness: the first asset loaded holds 100 and the second, of another
\* category, 300; the category holding 300 comes first and is the top one.
C13_Witness ==
    /\ DistributionDone
    /\ Len(assets) = 2
    /\ assets[1].current_value = <<100>>
    /\ Len(result) = 2
    /\ result[1].rawValue = 300
    /\ result[2].rawValue = 100
    /\ topCategory = <<result[1]>>

---------------------------------------------------------------------------
\* What the claims about the visible distribution speak of.

VisibleDone == pc = "done"

\* The categories of the distribution: those whose summed value is positive
\* and whose share of a positive total rounds to more than 0.00 percent.
Distributed ==
    IF assets = <<>> \/ TotalUsed <= 0 THEN {}
    ELSE {c \in CATEGORIES :
             CategorySum(c) > 0 /\ 2 * 10000 * CategorySum(c) >= TotalUsed}

\* The categories that remain once the hidden ones are removed, and the sum
\* of their raw values.
Remaining == Distributed \ hiddenCategories

RemainingSum == Sum([c \in CATEGORIES |-> CategorySum(c)], Remaining)

\* C14: the visible distribution holds no hidden category; it holds exactly
\* the remaining categories, each with its raw value and with the percent
\* rawValue / (sum of the remaining raw values) * 100 rounded to two
\* decimals, so that the percentages sum to 100 within the rounding of each
\* entry; it is empty when the remaining raw values sum to 0.
C14_VisibleSharesRenormalised ==
    VisibleDone =>
        /\ Reported \cap hiddenCategories = {}
        /\ Reported = Remaining
        /\ Cardinality(Reported) = Len(result)
        /\ \A i \in 1..Len(result) :
              /\ result[i].rawValue = CategorySum(result[i].category)
              /\ IsRoundedPercent(result[i].percent, result[i].rawValue, RemainingSum)
        /\ result # <<>> =>
               LET total == Sum([i \in 1..Len(result) |-> result[i].percent],
                                1..Len(result))
               IN  /\ 2 * (total - 10000) <= Len(result)
                   /\ 2 * (10000 - total) <= Len(result)
        /\ RemainingSum = 0 => result = <<>>

\* C14 witness: three categories are distributed over a total of 1000, one of
\* them is hidden, and the two that remain, holding 200 and 100, are reported
\* with 66.67 and 33.33 percent.
C14_Witness ==
    /\ VisibleDone
    /\ TotalUsed = 1000
    /\ hiddenCategories = {"IMOVEIS"}
    /\ CategorySum("IMOVEIS") > 0
    /\ Len(result) = 2
    /\ result[1].rawValue = 200
    /\ result[1].percent = 6667
    /\ result[2].rawValue = 100
    /\ result[2].percent = 3333

---------------------------------------------------------------------------
\* Further claims about the performance calculator.

\* The values currentValue may take, stated on the snapshots and the assets
\* alone: the category's distribution value when it has one, else the value
\* of a snapshot carrying the latest timestamp of its latest month, else null.
BestKnownValues(key) ==
    IF key \in Distributed THEN {<<CategorySum(key)>>}
    ELSE IF SnapshotMonths(key) = {} THEN {<<>>}
    ELSE {<<v>> : v \in LatestValues(key, CurrentMonthOf(key))}

\* C15: with at least two distinct months, percentChange is
\* deltaValue / adjustedPrevious * 100 when adjustedPrevious is not 0, and it
\* is null, not 0, exactly when adjustedPrevious is 0.
C15_PercentChangeOrNull ==
    PerformanceDone =>
        \A k \in 1..Len(PERFORMANCE_CATEGORIES) :
            LET key == PERFORMANCE_CATEGORIES[k]
            IN  Cardinality(SnapshotMonths(key)) >= 2 =>
                    \E cv \in LatestValues(key, CurrentMonthOf(key)),
                       pv \in LatestValues(key, PreviousMonthOf(key)) :
                        LET adjustedPrevious ==
                                pv - NetCashFlow(key, PreviousMonthOf(key))
                            delta ==
                                (cv - NetCashFlow(key, CurrentMonthOf(key)))
                                  - adjustedPrevious
                            percent == result[k].percentChange
                        IN  /\ result[k].deltaValue = <<delta>>
                            /\ adjustedPrevious = 0 <=> percent = <<>>
                            /\ adjustedPrevious # 0 =>
                                   /\ percent[1].den # 0
                                   /\ percent[1].num * adjustedPrevious
                                          = delta * 100 * percent[1].den

\* C15 witness: the previous month is valued 1000 and a top-up of 1000 is
\* dated in it, so adjustedPrevious is 0: deltaValue is reported and
\* percentChange is null.
C15_Witness ==
    /\ PerformanceDone
    /\ Cardinality(SnapshotMonths("ACOES")) >= 2
    /\ LatestValues("ACOES", PreviousMonthOf("ACOES")) = {1000}
    /\ NetCashFlow("ACOES", PreviousMonthOf("ACOES")) = 1000
    /\ result[3].deltaValue # <<>>
    /\ result[3].percentChange = <<>>

\* C16: for a category with fewer than two distinct months of snapshots of
\* parseable date, percentChange and deltaValue are null (not 0) and
\* currentValue is the category's distribution value if it has one, else the
\* latest monthly value if there is one, else null.
C16_InsufficientHistoryGivesNull ==
    PerformanceDone =>
        \A k \in 1..Len(PERFORMANCE_CATEGORIES) :
            LET key == PERFORMANCE_CATEGORIES[k]
            IN  Cardinality(SnapshotMonths(key)) < 2 =>
                    /\ result[k].percentChange = <<>>
                    /\ result[k].deltaValue = <<>>
                    /\ result[k].currentValue \in BestKnownValues(key)

\* C16 witness: the tracked category has snapshots in one month only, one
\* more of unparseable date, transactions, and no distribution value: both
\* changes are null and currentValue is the month's value; a category
\* without any snapshot has a null currentValue.
C16_Witness ==
    /\ PerformanceDone
    /\ Cardinality(SnapshotMonths("ACOES")) = 1
    /\ \E i \in 1..Len(assetControls) : assetControls[i].controlDate = InvalidDate
    /\ transactions # <<>>
    /\ assets = <<>>
    /\ result[3].percentChange = <<>>
    /\ result[3].deltaValue = <<>>
    /\ result[3].currentValue = <<1000>>
    /\ result[1].currentValue = <<>>

\* C17: currentValue is one of the values the snapshots and the assets alone
\* determine, whatever the transactions: the unadjusted distribution value
\* of the category when the distribution has one.
C17_CurrentValueIgnoresTransactions ==
    PerformanceDone =>
        \A k \in 1..Len(PERFORMANCE_CATEGORIES) :
            result[k].currentValue \in BestKnownValues(PERFORMANCE_CATEGORIES[k])

\* C17 witness: the current month has a net cash flow that enters deltaValue,
\* the category is distributed with 300, and currentValue is 300.
C17_Witness ==
    /\ PerformanceDone
    /\ Cardinality(SnapshotMonths("ACOES")) >= 2
    /\ NetCashFlow("ACOES", CurrentMonthOf("ACOES")) = 150
    /\ "ACOES" \in Distributed
    /\ result[3].deltaValue # <<>>
    /\ result[3].currentValue = <<300>>

---------------------------------------------------------------------------
\* Malformed records and degenerate inputs of the builders.

\* The collection with its records of unparseable date removed.
WithoutMalformed(recs) ==
    SelectSeq(recs, LAMBDA control : control.controlDate # InvalidDate)

\* C18: a snapshot with an unparseable date is skipped: the quarterly series
\* built from a collection equals the one built from the same collection
\* with the malformed records removed, so that neither the date nor the
\* value of a malformed record reaches the output.
C18_MalformedRecordsSkipped ==
    QuarterlyDone =>
        result = buildQuarterlySeries(WithoutMalformed(records), fallbackValue)

\* C19: with no snapshot at all the quarterly builder returns the single
\* point (current month, live value) when a live value is present and the
\* empty series when it is absent; the trailing-months builder with no
\* snapshot and no live value returns the empty series.
C19_NoSnapshotSeries ==
    (pc = "done" /\ records = <<>>) =>
        /\ (viewMode = "overall" /\ fallbackValue = <<>>) => result = <<>>
        /\ (viewMode = "overall" /\ fallbackValue # <<>>) =>
               /\ Pairs(result) = <<<<ThisMonth, fallbackValue[1]>>>>
               /\ result[1].formattedDate = formatMonthYear(now)
        /\ (viewMode # "overall" /\ fallbackValue = <<>>) => result = <<>>

\* C19 witness: the overall view with no overall snapshot and a live total
\* of 500 gave the single point (current month, 500).
C19_Witness ==
    /\ pc = "done"
    /\ viewMode = "overall"
    /\ records = <<>>
    /\ fallbackValue = <<500>>
    /\ Pairs(result) = <<<<ThisMonth, 500>>>>

---------------------------------------------------------------------------
\* What the claim about the view selector speaks of.

ViewDone == pc = "done"

\* The subject of the view: no category for the overall view, else the
\* category of the same name.
ViewSubject == IF viewMode = "overall" THEN "" ELSE viewMode

\* The snapshots of the view's subject, in the order they were loaded.
OwnSnapshots ==
    SelectSeq(assetControls, LAMBDA control : control.category = ViewSubject)

\* The value of the latest of them, absent when there is none.
LatestOwnValue ==
    IF OwnSnapshots = <<>> THEN <<>>
    ELSE <<OwnSnapshots[Len(OwnSnapshots)].currentTotalValue>>

\* The fallback of the view: for the overall view the live total if there is
\* one, for a category its distribution value if it has one; else the value
\* of the latest snapshot of the subject, else absent.
ExpectedFallback ==
    IF viewMode = "overall"
    THEN IF currentTotal # <<>> THEN <<currentTotal[1].current_total>>
         ELSE LatestOwnValue
    ELSE IF viewMode \in Distributed THEN <<CategorySum(viewMode)>>
         ELSE LatestOwnValue

\* C20: the overall view is built by the quarterly builder from exactly the
\* snapshots without category, with fallback the live total, else the value
\* of the latest overall snapshot, else absent; a category view is built by
\* the trailing-12-months builder from exactly the snapshots of that
\* category, with fallback its distribution value, else the value of its
\* latest snapshot, else absent.  No snapshot of another subject is passed.
C20_ViewRoutesSubjectAndFallback ==
    ViewDone =>
        /\ records = OwnSnapshots
        /\ \A i \in 1..Len(records) :
              /\ records[i].category = ViewSubject
              /\ records[i].controlDate <= records[Len(records)].controlDate
        /\ fallbackValue = ExpectedFallback
        /\ viewMode = "overall" =>
               result = buildQuarterlySeries(OwnSnapshots, ExpectedFallback)
        /\ viewMode # "overall" =>
               /\ months = 12
               /\ result = buildMonthlySeries(OwnSnapshots, ExpectedFallback, 12)

\* C20 witness: an overall snapshot, one of the tracked category and one of
\* another category are loaded and the tracked category, distributed with
\* 300, is viewed: the builder got its one snapshot and the fallback 300, and
\* the series ends with 300 in the current month.
C20_Witness ==
    /\ ViewDone
    /\ viewMode = "ACOES"
    /\ {assetControls[i].category : i \in 1..Len(assetControls)}
           = {"", "ACOES", "IMOVEIS"}
    /\ Len(records) = 1
    /\ fallbackValue = <<300>>
    /\ result # <<>>
    /\ <<result[Len(result)].date, result[Len(result)].value>> = <<ThisMonth, 300>>


---------------------------------------------------------------------------
\* The calendar quarters of the quarterly builder's points.

\* The pairs of positions of the series whose points fall in one quarter.
SameQuarterPairs(series) ==
    {p \in (1..Len(series)) \X (1..Len(series)) :
        p[1] < p[2] /\ QuarterOf(series[p[1]].date) = QuarterOf(series[p[2]].date)}

\* C28 as stated: the output never contains two points whose timestamps fall
\* in the same calendar quarter.
C28_OnePointPerQuarter ==
    QuarterlyDone => SameQuarterPairs(result) = {}

\* C28: the buckets fall in distinct quarters, and the only point that can
\* share a quarter with another is the final point, dated the first day of
\* the current month, when it was appended: with at least one snapshot, two
\* points share a quarter exactly when the current quarter holds a snapshot
\* and the last bucket is not the current month's.
C28_OnlyCurrentPointSharesQuarter ==
    QuarterlyDone =>
        /\ \A p \in SameQuarterPairs(result) :
              /\ p[2] = Len(result)
              /\ result[p[2]].date = ThisMonth
              /\ QuarterStartOf(QuarterOf(result[p[1]].date)) = result[p[1]].date
        /\ records # <<>> =>
              (SameQuarterPairs(result) # {}
                  <=> /\ QuarterOf(now) \in QuartersOf(records)
                      /\ ~LastBucketIsThisMonth(records))

\* C28 witness: the clock is in the third month of its quarter, a snapshot is
\* dated in the quarter's first month, and the series holds the quarter's
\* bucket followed by the appended point of the current month.
C28_Witness ==
    /\ QuarterlyDone
    /\ MonthOf(now) % 3 = 2
    /\ fallbackValue = Some(130)
    /\ Len(result) = 2
    /\ result[1].date = QuarterStartOf(QuarterOf(now))
    /\ result[2].date = ThisMonth
    /\ result[2].value = 130
    /\ SameQuarterPairs(result) = {<<1, 2>>}


---------------------------------------------------------------------------
\* The signs of percentChange and deltaValue.

Sign(n) == IF n > 0 THEN 1 ELSE IF n < 0 THEN 0 - 1 ELSE 0

\* The sign of a percentChange, kept as the fraction num / den.
PercentSign(percent) == Sign(percent.num) * Sign(percent.den)

\* C27 as stated: whenever percentChange is non-null it has the same sign as
\* deltaValue.
C27_PercentAndDeltaAgreeInSign ==
    PerformanceDone =>
        \A k \in 1..Len(PERFORMANCE_CATEGORIES) :
            result[k].percentChange # Null =>
                PercentSign(result[k].percentChange[1])
                    = Sign(result[k].deltaValue[1])

\* C27: whenever percentChange is non-null, its sign is the sign of deltaValue
\* when the previous month's adjusted value is positive and the opposite sign
\* when that adjusted value is negative (the top-ups of the previous month
\* exceed its value); both are zero together.
C27_PercentSignFollowsAdjustedPrevious ==
    PerformanceDone =>
        \A k \in 1..Len(PERFORMANCE_CATEGORIES) :
            LET key == PERFORMANCE_CATEGORIES[k]
            IN  result[k].percentChange # Null =>
                    /\ Cardinality(SnapshotMonths(key)) >= 2
                    /\ \E pv \in LatestValues(key, PreviousMonthOf(key)) :
                          LET adjustedPrevious ==
                                  pv - NetCashFlow(key, PreviousMonthOf(key))
                          IN  /\ adjustedPrevious # 0
                              /\ PercentSign(result[k].percentChange[1])
                                   = Sign(result[k].deltaValue[1])
                                       * Sign(adjustedPrevious)

\* C27 witness: the previous month's 1000 less two top-ups of 1000 is -1000,
\* the current month's 1000 is unadjusted, so deltaValue is 2000 and
\* percentChange is -200%.
C27_Witness ==
    /\ PerformanceDone
    /\ Len(transactions) = 2
    /\ \A i \in 1..2 : /\ transactions[i].type = "TOP_UP"
                       /\ transactions[i].amount = 1000
                       /\ transactions[i].category = "ACOES"
    /\ result[3].deltaValue = Some(2000)
    /\ result[3].percentChange = Some([num |-> 200000, den |-> 0 - 1000])


---------------------------------------------------------------------------
\* The hidden categories and the summary cards.

\* The page shows its cards: the load is over and a snapshot is loaded.
CardsShown == VisibleDone /\ assetControls # <<>>

\* C29 as stated: the category shown as top category is not a member of the
\* hidden set, the distribution shown holds no hidden category, and the
\* displayed total is the total less the hidden categories' raw values,
\* floored at 0.
C29_HiddenNeverSurface ==
    CardsShown =>
        /\ topCategory # Null => topCategory[1].category \notin hiddenCategories
        /\ \A i \in 1..Len(result) : result[i].category \notin hiddenCategories
        /\ LET hiddenSum == Sum([c \in CATEGORIES |-> CategorySum(c)],
                                Distributed \cap hiddenCategories)
           IN  displayTotalValue
                   = IF totalValue - hiddenSum > 0 THEN totalValue - hiddenSum
                     ELSE 0


---------------------------------------------------------------------------
\* AssetTransactionDialog: the dialog that records a top-up or a withdrawal.

MaxSubmits == 2

\* What the amount field may hold: nothing, a text that is no number, zero,
\* a negative and a positive amount.
AmountTexts == {"", "abc", "0", "-5", "150"}

\* A number n is kept as <<n>> and NaN as the empty tuple.
NaN == <<>>

\* Number(amount): the empty text converts to 0, a text that is no number to
\* NaN.
Number(text) ==
    CASE text = "" -> <<0>>
      [] text = "0" -> <<0>>
      [] text = "-5" -> <<0 - 5>>
      [] text = "150" -> <<150>>
      [] OTHER -> NaN

\* IsValidAmount letting an amount of zero through.
IsValidAmountOrZero(parsedAmount) ==
    ~(parsedAmount = NaN \/ parsedAmount[1] < 0)

\* !(Number.isNaN(parsedAmount) || parsedAmount <= 0)
IsValidAmount(parsedAmount) ==
    ~(parsedAmount = NaN \/ parsedAmount[1] <= 0)

ValidationError == "Informe um valor valido."

SubmitError == "Falha ao salvar a transacao. Tente novamente."

\* What no step of the dialog touches.
DialogFrame ==
    UNCHANGED <<now, records, fallbackValue, months, assetControls,
                currentTotal, assets, transactions, hiddenCategories,
                viewMode, pc, result, loadVars>>

\* The page opens the dialog for an asset; the effect on open resets the
\* dialog's state.
OpenDialog ==
    /\ DialogFrame
    /\ ~open
    /\ open' = TRUE
    /\ transactionType' = "aporte"
    /\ amountText' = ""
    /\ dialogError' = Null
    /\ submitting' = FALSE
    /\ UNCHANGED <<onSubmitCalls, pendingSubmits>>

\* onChange of the toggle group: value && setTransactionType(value)
SetTransactionType ==
    /\ DialogFrame
    /\ open
    /\ \E value \in {"aporte", "resgate"} : transactionType' = value
    /\ UNCHANGED <<open, amountText, submitting, dialogError, onSubmitCalls,
                   pendingSubmits>>

\* onChange of the field: setAmount(e.target.value)
SetAmount ==
    /\ DialogFrame
    /\ open
    /\ \E text \in AmountTexts : amountText' = text
    /\ UNCHANGED <<open, transactionType, submitting, dialogError,
                   onSubmitCalls, pendingSubmits>>

\* handleSubmit up to its await: the button is disabled while submitting.
HandleSubmit ==
    /\ DialogFrame
    /\ open
    /\ ~submitting
    /\ LET parsedAmount == Number(amountText)
       IN  IF ~IsValidAmount(parsedAmount)
           THEN /\ dialogError' = Some(ValidationError)
                /\ UNCHANGED <<submitting, onSubmitCalls, pendingSubmits>>
           ELSE /\ Len(onSubmitCalls) < MaxSubmits
                /\ submitting' = TRUE
                /\ dialogError' = Null
                /\ onSubmitCalls' =
                       Append(onSubmitCalls, [type |-> transactionType,
                                              amount |-> parsedAmount])
                /\ pendingSubmits' = pendingSubmits + 1
    /\ UNCHANGED <<open, transactionType, amountText>>

\* handleSubmit after its await when onSubmit resolved: onClose(), then the
\* finally block.
OnSubmitResolved ==
    /\ DialogFrame
    /\ pendingSubmits > 0
    /\ open' = FALSE
    /\ submitting' = FALSE
    /\ pendingSubmits' = pendingSubmits - 1
    /\ UNCHANGED <<transactionType, amountText, dialogError, onSubmitCalls>>

\* handleSubmit after its await when onSubmit rejected: the catch block, then
\* the finally block.
OnSubmitRejected ==
    /\ DialogFrame
    /\ pendingSubmits > 0
    /\ dialogError' = Some(SubmitError)
    /\ submitting' = FALSE
    /\ pendingSubmits' = pendingSubmits - 1
    /\ UNCHANGED <<open, transactionType, amountText, onSubmitCalls>>

\* onClose: the Cancel button, disabled while submitting, or the dialog's own
\* onClose (Escape, a click outside), which is not.
CloseDialog ==
    /\ DialogFrame
    /\ open
    /\ open' = FALSE
    /\ UNCHANGED <<transactionType, amountText, submitting, dialogError,
                   onSubmitCalls, pendingSubmits>>

InitDialog ==
    /\ now = NewDate(2, 0) + (DaysPerMonth - 1)
    /\ records = <<>>
    /\ fallbackValue = Null
    /\ months = 0
    /\ assetControls = <<>>
    /\ currentTotal = Null
    /\ assets = <<>>
    /\ transactions \in SeqsUpTo(TransactionSet(now), MaxTransactions)
    /\ hiddenCategories = {}
    /\ viewMode = "overall"
    /\ pc = "ready"
    /\ result = <<>>
    /\ LoadSettled
    /\ DialogClosed

NextDialog ==
    \/ OpenDialog
    \/ SetTransactionType
    \/ SetAmount
    \/ HandleSubmit
    \/ OnSubmitResolved
    \/ OnSubmitRejected
    \/ CloseDialog

SpecDialog == InitDialog /\ [][NextDialog]_vars

---------------------------------------------------------------------------
\* Positive amounts, the direction carried by the kind.

\* The months a transaction of the inputs may be dated in.
TransactionMonths ==
    {MonthOf(transactions[j].transactionDate) :
        j \in {i \in 1..Len(transactions) :
                  transactions[i].transactionDate # InvalidDate}}

\* The amount held by the field is not a number, is zero or is negative.
FieldRejected == Number(amountText) = NaN \/ Number(amountText)[1] <= 0

\* C25: every call of onSubmit carries an amount that is a number greater
\* than 0; a step that raises the validation error is taken with a rejected
\* amount, leaves the dialog open and calls nothing; no step calls onSubmit
\* while the field holds a rejected amount; and the net cash flow of a
\* category and month is the sum of its TOP_UP amounts less the sum of its
\* WITHDRAW amounts.
C25_PositiveAmountDirectionByKind ==
    /\ [](/\ \A i \in 1..Len(onSubmitCalls) :
                /\ onSubmitCalls[i].amount # NaN
                /\ onSubmitCalls[i].amount[1] > 0
          /\ \A key \in CATEGORIES, m \in TransactionMonths :
                NetOf(<<key, m \div 12, m % 12>>) = NetCashFlow(key, m))
    /\ [][((dialogError' = Some(ValidationError)
                /\ dialogError # Some(ValidationError))
               => (/\ FieldRejected
                   /\ open /\ open'
                   /\ ~submitting'
                   /\ onSubmitCalls' = onSubmitCalls
                   /\ pendingSubmits' = pendingSubmits))
           /\ (FieldRejected => onSubmitCalls' = onSubmitCalls)]_vars

\* C25 witness: a withdrawal of 150 was submitted and has settled, the dialog
\* was opened again, -5 was entered and refused with the validation error,
\* the dialog staying open; the transactions hold a top-up and a withdrawal.
C25_Witness ==
    /\ onSubmitCalls = <<[type |-> "resgate", amount |-> <<150>>]>>
    /\ pendingSubmits = 0
    /\ open
    /\ amountText = "-5"
    /\ dialogError = Some(ValidationError)
    /\ \E i, j \in 1..Len(transactions) :
          /\ transactions[i].type = "TOP_UP"
          /\ transactions[j].type = "WITHDRAW"
          /\ transactions[i].category = transactions[j].category


---------------------------------------------------------------------------
\* loadAssetControls: the load of the dashboard page, one action per stretch
\* between two awaits.  The page renders between any two actions, so every
\* state is one the page computes its derived values from.

MaxLoads == 3

MaxMounts == 2

LoadError == "Falha ao carregar os dados. Por favor, tente novamente."

\* An answer of the store: not received yet, a failure, or a value.
Pending == [state |-> "pending", value |-> <<>>]

Failed == [state |-> "failed", value |-> <<>>]

Ok(v) == [state |-> "ok", value |-> <<v>>]

\* The clock of the loads: the last day of September of year 2.
LoadNow == NewDate(2, 8) + (DaysPerMonth - 1)

\* What the store may hold as snapshots: nothing; an overall snapshot, three
\* months of one tracked category and two of another; or one snapshot of a
\* category and another whose date does not parse.
StoredControls ==
    {<<>>,
     <<Control(NewDate(2, 8), 400, NoCategory),
       Control(NewDate(2, 5), 900, "ACOES"),
       Control(NewDate(2, 6), 1000, "ACOES"),
       Control(NewDate(2, 7), 1200, "ACOES"),
       Control(NewDate(2, 7), 500, "RENDA_FIXA_POS"),
       Control(NewDate(2, 8), 600, "RENDA_FIXA_POS")>>,
     <<Control(InvalidDate, 50, "ACOES"),
       Control(NewDate(2, 7), 1200, "ACOES")>>}

StoredAssets == <<Asset("ACOES", Some(300)), Asset("IMOVEIS", Some(100))>>

StoredTotal == [current_total |-> 500]

\* The transactions the store holds for month `month` (1 to 12) of `year`:
\* one top-up of a tracked category.
StoredTransactions(month, year) ==
    <<Transaction("ACOES", 150, NewDate(year, month - 1), "TOP_UP")>>

\* fetchAssetControls: the data sorted by controlDate, [] when the request
\* fails.
fetchAssetControls(answer) ==
    IF answer.state = "ok" THEN SortOutcomes(answer.value[1]) ELSE {<<>>}

\* The Set monthsToFetch: add keeps the first occurrence's place.
SetAdd(set, key) ==
    IF \E i \in 1..Len(set) : set[i] = key THEN set ELSE Append(set, key)

\* The body of categoryControls.forEach: the month's latest timestamp.
FetchMonthStep(monthMap, control) ==
    IF isNaN(control.controlDate) THEN monthMap
    ELSE LET key == MonthKey(control.controlDate)
             i == MapIndex(monthMap, key)
         IN  IF i = 0 \/ control.controlDate > monthMap[i].timestamp
             THEN MapSet(monthMap, [key |-> key,
                                    year |-> getFullYear(control.controlDate),
                                    month |-> getMonth(control.controlDate),
                                    timestamp |-> control.controlDate,
                                    date |-> control.controlDate])
             ELSE monthMap

RECURSIVE FetchMonthMap(_)
FetchMonthMap(categoryControls) ==
    IF categoryControls = <<>> THEN <<>>
    ELSE FetchMonthStep(
             FetchMonthMap(SubSeq(categoryControls, 1, Len(categoryControls) - 1)),
             Last(categoryControls))

\* monthlyEntries.slice(-1): the latest month only.
SliceLastOne(monthlyEntries) ==
    IF monthlyEntries = <<>> THEN <<>> ELSE <<Last(monthlyEntries)>>

\* monthlyEntries.slice(-2)
SliceLastTwo(monthlyEntries) ==
    SubSeq(monthlyEntries,
           IF Len(monthlyEntries) > 2 THEN Len(monthlyEntries) - 1 ELSE 1,
           Len(monthlyEntries))

RECURSIVE AddMonths(_, _)
AddMonths(set, entries) ==
    IF entries = <<>> THEN set
    ELSE AddMonths(SetAdd(set, <<entries[1].year, entries[1].month>>),
                   SubSeq(entries, 2, Len(entries)))

\* PERFORMANCE_CATEGORIES.forEach(...) over the first n tracked categories.
RECURSIVE MonthsOfCategories(_, _)
MonthsOfCategories(assetControlData, n) ==
    IF n = 0 THEN <<>>
    ELSE LET key == PERFORMANCE_CATEGORIES[n]
             categoryControls ==
                 SelectSeq(assetControlData, LAMBDA c : c.category = key)
             monthlyEntries == SortByDate(FetchMonthMap(categoryControls))
         IN  AddMonths(MonthsOfCategories(assetControlData, n - 1),
                       SliceLastTwo(monthlyEntries))

\* monthsToFetch: the last two months of every tracked category, or the
\* current month when there is none.
monthsToFetch(assetControlData) ==
    LET found == MonthsOfCategories(assetControlData, Len(PERFORMANCE_CATEGORIES))
    IN  IF found = <<>> THEN <<<<getFullYear(now), getMonth(now)>>>> ELSE found

\* fetchTransactions(username, monthIndex + 1, year): what is asked of the
\* store for one month key.
TransactionRequest(monthKey) ==
    [month |-> monthKey[2] + 1, year |-> monthKey[1]]

\* transactionResponses.flat(): a failed request counts as [].
RECURSIVE Flat(_)
Flat(responses) ==
    IF responses = <<>> THEN <<>>
    ELSE (IF responses[1].state = "ok" THEN responses[1].value[1] ELSE <<>>)
             \o Flat(SubSeq(responses, 2, Len(responses)))

\* A call of loadAssetControls that has reached its first await.
NewLoad(id) ==
    [id |-> id, pc |-> "controls", token |-> TRUE, requests |-> <<>>,
     controls |-> Pending, assets |-> Pending, transactions |-> <<>>,
     total |-> Pending]

RemoveAt(s, i) == SubSeq(s, 1, i - 1) \o SubSeq(s, i + 1, Len(s))

\* What the page derives from its state: the chart's series, the
\* distribution and the performance of the tracked categories.
Derived ==
    [series |-> chartData,
     distribution |-> categoryDistribution,
     performance |->
         categoryPerformance(
             [k \in 1..Len(PERFORMANCE_CATEGORIES) |->
                 SortByControlDate(CategoryControls(PERFORMANCE_CATEGORIES[k]))])]

\* The button 'Tentar Novamente' is rendered while loading.
RefreshEnabledWhileLoading == Len(assetControls) = 0

\* The button that calls handleRefresh is rendered: loading is false and no
\* snapshot is loaded.
RefreshEnabled == ~loading /\ Len(assetControls) = 0


\* What a call that has returned leaves on record.
Returned(load) == [load EXCEPT !.pc = "done"]

\* What the store answered to a call, and whether the token was there.
AnswersOf(load) ==
    [token |-> load.token, controls |-> load.controls, assets |-> load.assets,
     transactions |-> load.transactions, total |-> load.total]

\* The call that returned last is kept on record.
RecordReturn(load) == lastPass' = Some(Returned(load))

\* The first call to return is kept with what the page derived from the
\* state it left; it is noted when the page leaves that state.
NoteFirstPass ==
    firstPass' = IF firstPass = Null /\ lastPass # Null /\ loads = <<>>
                 THEN Some([answers |-> AnswersOf(Val(lastPass)),
                            derived |-> Derived])
                 ELSE firstPass

\* What no step of the load touches.
LoadFrame ==
    UNCHANGED <<now, records, fallbackValue, months, hiddenCategories, pc,
                result, dialogVars>>

\* loadAssetControls up to its first await: a missing token throws, and the
\* catch and finally blocks run at once.
StartLoad ==
    /\ LoadFrame
    /\ started' = started + 1
    /\ UNCHANGED <<assetControls, currentTotal, assets, transactions, viewMode,
                   mounts, origin>>
    /\ \E token \in BOOLEAN :
          IF token
          THEN /\ loading' = TRUE
               /\ error' = Null
               /\ loads' = Append(loads, NewLoad(started + 1))
               /\ UNCHANGED lastPass
          ELSE /\ loading' = FALSE
               /\ error' = Some(LoadError)
               /\ loads' = loads
               /\ RecordReturn([NewLoad(started + 1) EXCEPT !.token = FALSE])

\* useEffect(() => { loadAssetControls(); }, [])
LoadOnMount ==
    /\ effectPending
    /\ effectPending' = FALSE
    /\ UNCHANGED firstPass
    /\ StartLoad

\* handleRefresh, from the button rendered when no snapshot is loaded.
HandleRefresh ==
    /\ ~effectPending
    /\ RefreshEnabled
    /\ started < MaxLoads
    /\ UNCHANGED effectPending
    /\ NoteFirstPass
    /\ StartLoad

\* The snapshots and the assets arrive: both are stored and the months whose
\* transactions to fetch are computed; a failure of fetchAssets rejects the
\* Promise.all and ends the call in the catch block.
ReceiveControls ==
    /\ LoadFrame
    /\ \E i \in 1..Len(loads) :
        /\ loads[i].pc = "controls"
        /\ \E c \in {Failed} \cup {Ok(stored) : stored \in StoredControls},
              a \in {Failed, Ok(StoredAssets)} :
              \E assetControlData \in fetchAssetControls(c) :
                  LET load == [loads[i] EXCEPT
                                   !.controls = IF c.state = "ok"
                                                THEN Ok(assetControlData)
                                                ELSE Failed,
                                   !.assets = a]
                      keys == monthsToFetch(assetControlData)
                  IN  IF a.state = "failed"
                      THEN /\ error' = Some(LoadError)
                           /\ loading' = FALSE
                           /\ loads' = RemoveAt(loads, i)
                           /\ UNCHANGED <<assetControls, currentTotal, assets,
                                          transactions, viewMode, effectPending,
                                          started, mounts, origin, firstPass>>
                           /\ RecordReturn(load)
                      ELSE /\ assetControls' = assetControlData
                           /\ assets' = a.value[1]
                           /\ loads' = [loads EXCEPT ![i] =
                                  [load EXCEPT
                                      !.pc = "transactions",
                                      !.requests =
                                          [k \in 1..Len(keys) |->
                                              TransactionRequest(keys[k])]]]
                           /\ origin' = [origin EXCEPT !.controls = load.id]
                           /\ UNCHANGED <<currentTotal, transactions, viewMode,
                                          loading, error, effectPending, started,
                                          mounts, lastPass, firstPass>>

\* The transactions of every month asked for arrive, a failed request as [];
\* they are stored flattened.
ReceiveTransactions ==
    /\ LoadFrame
    /\ \E i \in 1..Len(loads) :
        /\ loads[i].pc = "transactions"
        /\ \E responses \in [1..Len(loads[i].requests) -> {"failed", "ok"}] :
              LET transactionResponses ==
                      [k \in 1..Len(loads[i].requests) |->
                          IF responses[k] = "ok"
                          THEN Ok(StoredTransactions(loads[i].requests[k].month,
                                                     loads[i].requests[k].year))
                          ELSE Failed]
              IN  /\ transactions' = Flat(transactionResponses)
                  /\ loads' = [loads EXCEPT ![i] =
                         [loads[i] EXCEPT !.pc = "total",
                                          !.transactions = transactionResponses]]
                  /\ origin' = [origin EXCEPT !.transactions = loads[i].id]
        /\ UNCHANGED <<assetControls, currentTotal, assets, viewMode, loading,
                       error, effectPending, started, mounts, lastPass,
                       firstPass>>

\* The live total arrives and is stored, or its request fails and the state
\* is left as it is; the finally block ends the call.
ReceiveTotal ==
    /\ LoadFrame
    /\ \E i \in 1..Len(loads) :
        /\ loads[i].pc = "total"
        /\ \E t \in {Failed, Ok(StoredTotal)} :
              /\ currentTotal' = IF t.state = "ok" THEN Some(t.value[1])
                                 ELSE currentTotal
              /\ origin' = IF t.state = "ok"
                           THEN [origin EXCEPT !.total = loads[i].id]
                           ELSE origin
              /\ loading' = FALSE
              /\ loads' = RemoveAt(loads, i)
              /\ UNCHANGED <<assetControls, assets, transactions, viewMode,
                             error, effectPending, started, mounts, firstPass>>
              /\ RecordReturn([loads[i] EXCEPT !.total = t])

\* The route is left and entered again: the page is mounted anew with the
\* state useState gives it, and the calls of the page unmounted no longer
\* reach any state.
Remount ==
    /\ LoadFrame
    /\ ~effectPending
    /\ mounts < MaxMounts
    /\ started < MaxLoads
    /\ mounts' = mounts + 1
    /\ assetControls' = <<>>
    /\ currentTotal' = Null
    /\ assets' = <<>>
    /\ transactions' = <<>>
    /\ viewMode' = "overall"
    /\ loading' = TRUE
    /\ error' = Null
    /\ effectPending' = TRUE
    /\ loads' = <<>>
    /\ origin' = [controls |-> 0, transactions |-> 0, total |-> 0]
    /\ lastPass' = Null
    /\ NoteFirstPass
    /\ UNCHANGED started

InitLoad ==
    /\ now = LoadNow
    /\ records = <<>>
    /\ fallbackValue = Null
    /\ months = 0
    /\ assetControls = <<>>
    /\ currentTotal = Null
    /\ assets = <<>>
    /\ transactions = <<>>
    /\ hiddenCategories = {}
    /\ viewMode = "overall"
    /\ pc = "ready"
    /\ result = <<>>
    /\ loading = TRUE
    /\ error = Null
    /\ effectPending = TRUE
    /\ loads = <<>>
    /\ started = 0
    /\ mounts = 1
    /\ origin = [controls |-> 0, transactions |-> 0, total |-> 0]
    /\ lastPass = Null
    /\ firstPass = Null
    /\ DialogClosed

NextLoad ==
    \/ LoadOnMount
    \/ HandleRefresh
    \/ ReceiveControls
    \/ ReceiveTransactions
    \/ ReceiveTotal
    \/ Remount

SpecLoad == InitLoad /\ [][NextLoad]_vars

\* Every request is answered or fails in the end, and the mount effect runs.
SpecLoadFair ==
    /\ SpecLoad
    /\ WF_vars(LoadOnMount)
    /\ WF_vars(ReceiveControls)
    /\ WF_vars(ReceiveTransactions)
    /\ WF_vars(ReceiveTotal)


---------------------------------------------------------------------------
\* The load of the dashboard.

\* The last call of loadAssetControls has returned and none is running.
LoadIdle == lastPass # Null /\ loads = <<>>

\* The value of the latest overall snapshot, if there is one.
LatestSnapshotValue ==
    IF overallControls # <<>>
    THEN Some(Last(overallControls).currentTotalValue)
    ELSE Null

\* C21: when the retrieval of the live total fails, the load still ends with
\* loading = false and no error, and what is aggregated after it has no live
\* total: the override of the series is the latest snapshot's value (none
\* without a snapshot) and the total of the distribution is totalValue of the
\* snapshots.
C21_FailedLiveTotalIsAbsent ==
    (LoadIdle /\ Val(lastPass).total.state = "failed") =>
        /\ ~loading
        /\ error = Null
        /\ LiveTotal = Null
        /\ viewFallbackValue = LatestSnapshotValue
        /\ totalAmount = Val(Coalesce(LatestSnapshotValue, Some(0)))


\* How many of the requests of a call failed.
FailedInputs(load) ==
    (IF load.controls.state = "failed" THEN 1 ELSE 0)
        + (IF load.assets.state = "failed" THEN 1 ELSE 0)
        + Cardinality({k \in 1..Len(load.transactions) :
                          load.transactions[k].state = "failed"})
        + (IF load.total.state = "failed" THEN 1 ELSE 0)

\* What a request answered, a failed one as `empty`.
AnswerOr(answer, empty) ==
    IF answer.state = "ok" THEN answer.value[1] ELSE empty

\* C22: a load of which one request failed does not end in the error state,
\* and the state it leaves holds what the other requests answered, with the
\* failed one as empty (no snapshots, no assets, no transactions of that
\* month) or absent (no live total).
C22_OneFailureReachesAsEmpty ==
    (LoadIdle /\ Val(lastPass).token /\ FailedInputs(Val(lastPass)) = 1) =>
        /\ error = Null
        /\ assetControls = AnswerOr(Val(lastPass).controls, <<>>)
        /\ assets = AnswerOr(Val(lastPass).assets, <<>>)
        /\ Len(Val(lastPass).transactions) = Len(Val(lastPass).requests)
        /\ transactions = Flat(Val(lastPass).transactions)
        /\ currentTotal = IF Val(lastPass).total.state = "ok"
                          THEN Some(Val(lastPass).total.value[1])
                          ELSE Null


\* C23: whenever the page renders, and so computes its aggregation, with the
\* snapshots of a pass, the transactions are those this pass retrieved and the
\* live total is the one this pass retrieved or is absent.
C23_AggregationFromOnePassOnly ==
    origin.controls # 0 =>
        /\ origin.transactions = origin.controls
        /\ currentTotal = Null \/ origin.total = origin.controls


\* C24: a load that the store answers as it answered the first load to return
\* leaves the page with the series, the distribution and the performance the
\* first one left.
C24_SameAnswersSameOutput ==
    (LoadIdle /\ firstPass # Null /\ Val(lastPass).token
        /\ AnswersOf(Val(lastPass)) = Val(firstPass).answers) =>
        Derived = Val(firstPass).derived


\* The requests of the transactions the last call made.
RequestedMonths ==
    {Val(lastPass).requests[k] : k \in 1..Len(Val(lastPass).requests)}

\* The request that holds the transactions of a month of a monthly series.
RequestOf(monthEntry) ==
    [month |-> monthEntry.month + 1, year |-> monthEntry.year]

\* The monthly series categoryPerformance compares the last two months of,
\* one for every order its sort may leave the entries in.
ComparedSeries(key) ==
    {monthlySeries(order) : order \in SortOutcomes(CategoryControls(key))}

\* C26: after a load, for every tracked category whose snapshots span two
\* months or more, the transactions of both months the performance compares
\* (the current and the previous one) were requested from the store.
C26_ComparedMonthsWereRequested ==
    LoadIdle =>
        \A k \in 1..Len(PERFORMANCE_CATEGORIES) :
            \A series \in ComparedSeries(PERFORMANCE_CATEGORIES[k]) :
                Len(series) >= 2 =>
                    /\ RequestOf(series[Len(series)]) \in RequestedMonths
                    /\ RequestOf(series[Len(series) - 1]) \in RequestedMonths

\* A load has ended with three months of ACOES loaded: July and August are
\* compared and were requested, June was not.
C26_Witness ==
    /\ LoadIdle
    /\ ~loading
    /\ \E series \in ComparedSeries("ACOES") :
          /\ Len(series) = 3
          /\ RequestOf(series[3]) = [month |-> 8, year |-> 2]
          /\ RequestOf(series[2]) = [month |-> 7, year |-> 2]
    /\ [month |-> 8, year |-> 2] \in RequestedMonths
    /\ [month |-> 7, year |-> 2] \in RequestedMonths
    /\ [month |-> 6, year |-> 2] \notin RequestedMonths
    /\ \E series \in ComparedSeries("RENDA_FIXA_POS") : Len(series) = 2


\* A step that starts a call of loadAssetControls from handleRefresh: a call
\* is started and the mount effect is not what started it.
RefreshStarts == started' = started + 1 /\ effectPending' = effectPending

\* C30: a load, whatever fails in it, ends with loading = false; loading is
\* true for as long as a load runs; a refresh starts only while loading is
\* false; no two loads run at once; and what a later load stored is never
\* replaced by what an earlier one retrieved.
C30_LoadLifecycle ==
    /\ [](loads # <<>> => loading)
    /\ [](Len(loads) <= 1)
    /\ [][RefreshStarts => ~loading]_vars
    /\ [][mounts' = mounts =>
            /\ origin'.controls >= origin.controls
            /\ origin'.transactions >= origin.transactions
            /\ origin'.total >= origin.total]_vars
    /\ (loading ~> ~loading)
    /\ (loads # <<>> ~> loads = <<>>)

\* A refresh of the first mount has run to its end with its live total
\* failing, after a first load that ended too.
C30_Witness ==
    /\ LoadIdle
    /\ ~loading
    /\ mounts = 1
    /\ Val(lastPass).id = 2
    /\ Val(lastPass).token
    /\ Val(lastPass).total.state = "failed"
    /\ origin.controls = 2
    /\ origin.transactions = 2

====
